---- MODULE Spec2Model ----
(***************************************************************************)
(* lum: the multi-file tracking and live-notification engine.              *)
(*                                                                         *)
(* State: the file registry (files), the FileState objects it points to,   *)
(* the per-file change detectors (the goroutine of startWatchingFile) with *)
(* their fsnotify event queues, the streaming (SSE) handlers with their    *)
(* sinks, the control connections that run addFile, the files on disk and  *)
(* the wall clock.                                                         *)
(***************************************************************************)
EXTENDS Integers, Sequences, FiniteSets, TLC

\* ------------------------------------------------------------------ bounds
\* number of environment steps (the system calls open, write, unlink and
\* chmod of other processes) in one run
MaxEnv == 3
\* number of clock steps in one run
MaxTicks == 12

\* ------------------------------------------------------- program constants
\* debounceDelay := 100 * time.Millisecond
DebounceDelay == 100
\* time.Sleep(50 * time.Millisecond)
SleepMs == 50
\* for range 10
MaxAttempts == 10
\* default of the --port flag
Port == 6333

\* ------------------------------------------------------------ universe
\* two files of one directory: "a.md" stays readable and watchable for the
\* whole run, "b.md" can be unlinked, renamed away and chmod-ed
Paths == {"a.md", "b.md"}
StablePaths == {"a.md"}
\* control connections (one goroutine handleControlCommand each)
Conns == {"c1", "c2"}
\* streaming requests (one goroutine handleSSE / handleIndexSSE each)
Handlers == {"h1", "h2"}
\* FileState objects: every addFile call allocates at most one
FsIds == 1 .. Cardinality(Conns)
NoFs == 0
\* os.ReadFile on a missing file
Absent == -1
\* a file that was created or truncated and has no content yet: the empty
\* file that the open following the n-th write leaves
Empty(n) == Absent - 1 - n
IsEmpty(content) == content < Absent
\* the zero time.Time of `var lastReload time.Time`
ZeroTime == -1
\* time.Duration saturates: now.Sub(time.Time{}) is the maximal duration
MaxDuration == 2147483647
\* an htmlContent that was never stored (nil slice)
NilContent == <<>>

\* a file of the directory whose name ends in a space; it is never written
SpacedPath == "c.md "
DiskPaths == Paths \cup {SpacedPath}

\* the invocations of the command, and the ports they are given
Procs == {"p1", "p2"}
AltPort == 16403
CliPorts == {Port, AltPort}
NoSock == 0
Running == -1
IndexScope == "/events/index"

VARIABLES
    disk,       \* disk[p]: content of the file p (a write number), Empty(n)
                \* (created or truncated, not yet written) or Absent
    perm,       \* perm[p]: the file p is readable by the process
    nenv,       \* environment steps taken so far
    nwrites,    \* writes made so far; the n-th write stores content n
    now,        \* wall clock in ms
    files,      \* the registry: files[p] is a FileState id or NoFs
    fstate,     \* fstate[i]: the FileState object i
    nalloc,     \* FileState objects allocated so far
    indexSSEClients, \* sinks registered for the index page
    conn,       \* conn[c]: the control connection c and its addFile call
    det,        \* det[i]: the detector goroutine of FileState i
    evq,        \* evq[i]: watcher.Events of FileState i
    hd,         \* hd[h]: the streaming handler h and its sink
    sockFile,   \* the socket bound at the control endpoint path, NoSock if none
    nsock,      \* sockets created so far
    proc,       \* proc[q]: the invocation q of the command
    flow        \* flow[f]: the goroutine f and the locks it holds

vars == <<disk, perm, nenv, nwrites, now, files, fstate, nalloc,
          indexSSEClients, conn, det, evq, hd, sockFile, nsock, proc, flow>>

osVars == <<sockFile, nsock, proc, flow>>

envVars == <<disk, perm, nenv, nwrites>>

\* --------------------------------------------------------------- renderer
\* md.Convert: the HTML of a content
Convert(content) == <<"html", content>>

\* os.ReadFile(p): "" on success, else the kind of the error
ReadErr(p) ==
    IF disk[p] = Absent THEN "ENOENT"
    ELSE IF ~perm[p] THEN "EACCES"
    ELSE ""

\* errors.Is(err, os.ErrNotExist)
IsNotExist(err) == err = "ENOENT"

\* renderMarkdown after the lookup, up to the store: os.ReadFile and Convert,
\* outside every lock. Result: the error kind, the converted buffer
RenderRead(p) ==
    IF ReadErr(p) # "" THEN [err |-> ReadErr(p), buf |-> NilContent]
    ELSE [err |-> "", buf |-> Convert(disk[p])]

\* os.Stat(p) reports "does not exist"
StatNotExist(p) == disk[p] = Absent

\* ---------------------------------------------------------- FileState
NewFileState(p) ==
    [path |-> p, htmlContent |-> NilContent, watcher |-> "none",
     sseClients |-> {}]

FreeFileState == [path |-> "", htmlContent |-> NilContent,
                  watcher |-> "none", sseClients |-> {}]

IdleDetector ==
    [pc |-> "none", lastReload |-> ZeroTime, attempt |-> 0, wake |-> 0,
     fs |-> NoFs, buf |-> NilContent, todo |-> {}, trigAt |-> 0,
     lastOkAt |-> ZeroTime, out |-> NilContent]

IdleConn ==
    [pc |-> "idle", line |-> <<>>, path |-> "", fs |-> NoFs,
     buf |-> NilContent, todo |-> {}, resp |-> <<>>, pubs |-> 0]

IdleHandler ==
    [pc |-> "idle", scope |-> "", fs |-> NoFs, msg |-> "", status |-> 0,
     recv |-> 0, stale |-> FALSE, closed |-> FALSE, body |-> NilContent]

\* an invocation: pc, the mode ("auto" for `lum FILE`, "daemon" for
\* `lum --daemon [FILE]`), the file argument, the port, the socket of its
\* control listener, whether it holds the HTTP listener of its port, its
\* registry, the process its control connection reached, what it sent and
\* received there, whether the handler of that connection is inside addFile
\* past its insertion (adding), its standard output, its exit code, and
\* whether its signal goroutine has run cleanupSocket and is at os.Exit (sig)
IdleProc ==
    [pc |-> "idle", mode |-> "", arg |-> "", port |-> Port, lsn |-> NoSock,
     http |-> FALSE, reg |-> {}, peer |-> "", sent |-> <<>>, resp |-> <<>>,
     adding |-> FALSE, out |-> <<>>, err |-> "", code |-> Running,
     sig |-> FALSE]

\* no invocation yet, no artifact at the endpoint path
\* a goroutine that takes locks: the lock operations and suspensions it has
\* ahead (prog), the one it is at (pc), whether it is queued on the lock of
\* that operation (phase) and the locks it holds
Flows == {"f1", "f2", "f3"}
IdleFlow == [prog |-> <<>>, pc |-> 1, phase |-> "run", held |-> {}]

OsIdle ==
    /\ sockFile = NoSock
    /\ nsock = 0
    /\ proc = [q \in Procs |-> IdleProc]
    /\ flow = [f \in Flows |-> IdleFlow]

\* ------------------------------------------------------------------ Init
Init ==
    /\ OsIdle
    /\ disk = [p \in DiskPaths |-> 0]
    /\ perm = [p \in DiskPaths |-> TRUE]
    /\ nenv = 0
    /\ nwrites = 0
    /\ now = 0
    /\ files = [p \in Paths |-> NoFs]
    /\ fstate = [i \in FsIds |-> FreeFileState]
    /\ nalloc = 0
    /\ indexSSEClients = {}
    /\ conn = [c \in Conns |-> IdleConn]
    /\ det = [i \in FsIds |-> IdleDetector]
    /\ evq = [i \in FsIds |-> <<>>]
    /\ hd = [h \in Handlers |-> IdleHandler]

\* ------------------------------------------------------- notification hub
\* (mutant) a sink that takes a message although its goroutine is not receiving
AlwaysReady(h) == TRUE

\* `select { case client <- message: default: }` on the unbuffered sink of h:
\* the send succeeds only while h's goroutine waits in its select
SinkReady(h) == hd[h].pc = "select"

\* one iteration of the publish loop, for the sink of h
TrySend(h, message) ==
    IF SinkReady(h)
    THEN [hd EXCEPT ![h].pc = "write", ![h].msg = message, ![h].recv = @ + 1,
                    ![h].stale = FALSE]
    ELSE hd

\* indexSSEClientsLock is read-locked by a notifyIndexClients in its loop
IndexRLocked == \E c \in Conns : conn[c].pc = "send"

\* (mutant) a deferred function that does not take the lock is never kept out
NeverRLocked(i) == FALSE

\* fstate[i].clientsLock is read-locked by a notifyClients in its loop
ClientsRLocked(i) == \E j \in FsIds : det[j].pc = "send" /\ det[j].fs = i

\* ------------------------------------------------------ control channel
\* Text is a sequence of symbols: a white-space character, or a run of other
\* characters (a keyword, a file name, a fixed piece of a message)
WhiteSpace == {" ", "\t", "\n"}

\* the text of a path that is one of the files of the model
PathText(p) == IF p = SpacedPath THEN <<"c.md", " ">> ELSE <<p>>

\* fmt.Sprintf("%d", n)
RECURSIVE Itoa(_)
Itoa(n) ==
    LET digit == <<"0", "1", "2", "3", "4", "5", "6", "7", "8", "9">>
    IN IF n < 10 THEN <<digit[n + 1]>>
       ELSE Itoa(n \div 10) \o <<digit[(n % 10) + 1]>>

\* strings.TrimSpace
RECURSIVE TrimLeft(_)
TrimLeft(t) ==
    IF t # <<>> /\ Head(t) \in WhiteSpace THEN TrimLeft(Tail(t)) ELSE t

RECURSIVE TrimRight(_)
TrimRight(t) ==
    IF t # <<>> /\ t[Len(t)] \in WhiteSpace
    THEN TrimRight(SubSeq(t, 1, Len(t) - 1)) ELSE t

TrimSpace(t) == TrimRight(TrimLeft(t))

\* strings.SplitN(t, " ", 2): one part, or the parts before and after the
\* first space
SplitN2(t) ==
    LET at == {n \in 1 .. Len(t) : t[n] = " "}
    IN IF at = {} THEN <<t>>
       ELSE LET n == CHOOSE m \in at : \A k \in at : m <= k
            IN <<SubSeq(t, 1, n - 1), SubSeq(t, n + 1, Len(t))>>

\* strings.CutPrefix(t, prefix): the rest, and whether the prefix was found
CutPrefix(t, prefix) ==
    IF Len(t) >= Len(prefix) /\ SubSeq(t, 1, Len(prefix)) = prefix
    THEN [rest |-> SubSeq(t, Len(prefix) + 1, Len(t)), found |-> TRUE]
    ELSE [rest |-> t, found |-> FALSE]

\* (mutant) everything the client wrote is taken as the line
ReadToEnd(t) == t

\* reader.ReadString('\n'): the text up to the first newline, or an error
HasLine(t) == \E n \in 1 .. Len(t) : t[n] = "\n"
ReadString(t) ==
    LET n == CHOOSE m \in 1 .. Len(t) :
                 t[m] = "\n" /\ \A k \in 1 .. m - 1 : t[k] # "\n"
    IN SubSeq(t, 1, n)

\* the file a path text names, "" if it names none of the files of the model
FileOf(t) ==
    IF \E p \in DOMAIN disk : PathText(p) = t
    THEN CHOOSE p \in DOMAIN disk : PathText(p) = t
    ELSE ""

\* os.Stat(filePath) reports "does not exist"
StatTextNotExist(t) == FileOf(t) = "" \/ StatNotExist(FileOf(t))

\* fmt.Sprintf("http://localhost:%d/?file=%s", port, filePath)
UrlText(port, t) == <<"http://localhost:">> \o Itoa(port) \o <<"/?file=">> \o t
Url(port, p) == UrlText(port, PathText(p))

\* the response lines of handleControlCommand
RespOKText(port, t) == <<"OK", " ">> \o UrlText(port, t) \o <<"\n">>
RespOK(p) == RespOKText(Port, PathText(p))
RespNoFile(t) == <<"ERROR", " ", "file does not exist:", " ">> \o t \o <<"\n">>
RespAddFailed(why) == <<"ERROR", " ", "failed to add file:", " ", why, "\n">>

\* (mutant) the reply to an invalid command names STOP as well
RespInvalidOrStop ==
    <<"ERROR", " ", "invalid command: expected 'ADD <path>' or 'STOP'", "\n">>

RespInvalid ==
    <<"ERROR", " ", "invalid command: expected 'ADD <path>'", "\n">>

\* "ADD %s\n" as tryAddToExistingServer writes it
AddLine(t) == <<"ADD", " ">> \o t \o <<"\n">>

\* `len(parts) != 2 || parts[0] != "ADD"` does not hold
IsAdd(parts) == Len(parts) = 2 /\ parts[1] = <<"ADD">>

\* handleControlCommand up to addFile: the line is read, trimmed, split and
\* validated; without a complete line the connection is closed unanswered
CtlRead(c, text) ==
    /\ conn[c].pc = "idle"
    /\ LET parts == SplitN2(TrimSpace(ReadString(text)))
       IN conn' = [conn EXCEPT ![c] =
                     IF ~HasLine(text)
                     THEN [@ EXCEPT !.pc = "done", !.line = text]
                     ELSE IF ~IsAdd(parts)
                     THEN [@ EXCEPT !.pc = "done", !.line = text,
                                    !.resp = RespInvalid]
                     ELSE IF StatTextNotExist(parts[2])
                     THEN [@ EXCEPT !.pc = "done", !.line = text,
                                    !.path = FileOf(parts[2]),
                                    !.resp = RespNoFile(parts[2])]
                     ELSE [@ EXCEPT !.pc = "add", !.line = text,
                                    !.path = FileOf(parts[2])]]
    /\ UNCHANGED <<osVars, envVars, now, files, fstate, nalloc, indexSSEClients,
                   det, evq, hd>>

\* ---------------------------------------------------------------- addFile
\* (mutant) the check for a tracked path is missing
NeverTracked(p) == FALSE

\* (mutant) a check that takes an entry still being set up for no entry
TrackedAndSetUp(p) == files[p] # NoFs /\ fstate[files[p]].watcher = "open"

\* `if _, exists := files[filePath]; exists`
AlreadyTracked(p) == files[p] # NoFs

\* (mutant) a failed add leaves its entry in the registry
RollbackNothing(p) == files

\* (mutant) a failed add clears the registry
RollbackAll(p) == [q \in Paths |-> NoFs]

\* `delete(files, filePath)` of a failed add
RollbackFiles(p) == [files EXCEPT ![p] = NoFs]

\* the outcomes of fsnotify.NewWatcher and watcher.Add for the directory of p
WatchOutcomes(p) == IF p \in StablePaths THEN {TRUE} ELSE BOOLEAN

\* (mutant) an addFile that publishes to the index page for a tracked path too
AddCheckPublishing(c) ==
    /\ conn[c].pc = "add"
    /\ LET p == conn[c].path
           id == nalloc + 1
       IN IF AlreadyTracked(p)
          THEN /\ conn' = [conn EXCEPT ![c].pc = "notify"]
               /\ UNCHANGED <<files, fstate, nalloc>>
          ELSE /\ id \in FsIds
               /\ files' = [files EXCEPT ![p] = id]
               /\ fstate' = [fstate EXCEPT ![id] = NewFileState(p)]
               /\ nalloc' = id
               /\ conn' = [conn EXCEPT ![c].pc = "render", ![c].fs = id]
    /\ UNCHANGED <<osVars, envVars, now, indexSSEClients, det, evq, hd>>

\* addFile under filesLock: return nil for a tracked path, else insert a new
\* FileState
AddCheck(c) ==
    /\ conn[c].pc = "add"
    /\ LET p == conn[c].path
           id == nalloc + 1
       IN IF AlreadyTracked(p)
          THEN /\ conn' = [conn EXCEPT ![c].pc = "done", ![c].resp = RespOK(p)]
               /\ UNCHANGED <<files, fstate, nalloc>>
          ELSE /\ id \in FsIds
               /\ files' = [files EXCEPT ![p] = id]
               /\ fstate' = [fstate EXCEPT ![id] = NewFileState(p)]
               /\ nalloc' = id
               /\ conn' = [conn EXCEPT ![c].pc = "render", ![c].fs = id]
    /\ UNCHANGED <<osVars, envVars, now, indexSSEClients, det, evq, hd>>

\* addFile's renderMarkdown begins: the lookup under the registry read lock;
\* "file not tracked" is the error of a missing entry
AddRender(c) ==
    /\ conn[c].pc = "render"
    /\ LET fs == files[conn[c].path]
       IN conn' = [conn EXCEPT ![c] =
                     IF fs = NoFs THEN [@ EXCEPT !.pc = "unrender"]
                     ELSE [@ EXCEPT !.pc = "read", !.fs = fs]]
    /\ UNCHANGED <<osVars, envVars, now, files, fstate, nalloc, indexSSEClients,
                   det, evq, hd>>

\* renderMarkdown goes on outside every lock: os.ReadFile and Convert; an
\* error is returned to addFile
AddRead(c) ==
    /\ conn[c].pc = "read"
    /\ LET r == RenderRead(conn[c].path)
       IN conn' = [conn EXCEPT ![c] =
                     IF r.err = "" THEN [@ EXCEPT !.pc = "store", !.buf = r.buf]
                     ELSE [@ EXCEPT !.pc = "unrender"]]
    /\ UNCHANGED <<osVars, envVars, now, files, fstate, nalloc, indexSSEClients,
                   det, evq, hd>>

\* renderMarkdown has failed: addFile takes filesLock again, deletes the
\* entry of the path and returns the error
AddRenderFailed(c) ==
    /\ conn[c].pc = "unrender"
    /\ files' = RollbackFiles(conn[c].path)
    /\ conn' = [conn EXCEPT ![c].pc = "done",
                            ![c].resp = RespAddFailed("failed to render file")]
    /\ UNCHANGED <<osVars, envVars, now, fstate, nalloc, indexSSEClients, det, evq, hd>>

\* renderMarkdown's store under contentLock
AddStore(c) ==
    /\ conn[c].pc = "store"
    /\ fstate' = [fstate EXCEPT ![conn[c].fs].htmlContent = conn[c].buf]
    /\ conn' = [conn EXCEPT ![c].pc = "watch", ![c].buf = NilContent]
    /\ UNCHANGED <<osVars, envVars, now, files, nalloc, indexSSEClients, det, evq, hd>>

\* addFile's startWatchingFile begins: fsnotify.NewWatcher (it can fail), then
\* under filesLock the lookup and the store of the watcher in the FileState;
\* for a missing entry the watcher is closed and never stored. The stored
\* watcher watches nothing yet ("created")
AddWatch(c) ==
    /\ conn[c].pc = "watch"
    /\ LET p == conn[c].path
           i == files[p]
       IN \E ok \in WatchOutcomes(p) :
            IF ~ok \/ i = NoFs
            THEN /\ conn' = [conn EXCEPT ![c].pc = "unwatch"]
                 /\ UNCHANGED fstate
            ELSE /\ fstate' = [fstate EXCEPT ![i].watcher = "created"]
                 /\ conn' = [conn EXCEPT ![c].pc = "watchdir", ![c].fs = i]
    /\ UNCHANGED <<osVars, envVars, now, files, nalloc, indexSSEClients, det, evq, hd>>

\* startWatchingFile goes on outside every lock: watcher.Add(watchDir); on
\* success the detector goroutine is started and startWatchingFile returns
\* nil, on failure the watcher is closed and the error returned; the entry
\* stays in the registry with its closed watcher
AddWatchDir(c) ==
    /\ conn[c].pc = "watchdir"
    /\ LET i == conn[c].fs
       IN \E ok \in WatchOutcomes(conn[c].path) :
            IF ok
            THEN /\ fstate' = [fstate EXCEPT ![i].watcher = "open"]
                 /\ det' = [det EXCEPT ![i].pc = "idle"]
                 /\ conn' = [conn EXCEPT ![c].pc = "notify"]
            ELSE /\ fstate' = [fstate EXCEPT ![i].watcher = "closed"]
                 /\ conn' = [conn EXCEPT ![c].pc = "unwatch"]
                 /\ UNCHANGED det
    /\ UNCHANGED <<osVars, envVars, now, files, nalloc, indexSSEClients, evq, hd>>

\* startWatchingFile has failed: addFile takes filesLock again, deletes the
\* entry of the path and returns the error
AddWatchFailed(c) ==
    /\ conn[c].pc = "unwatch"
    /\ files' = RollbackFiles(conn[c].path)
    /\ conn' = [conn EXCEPT ![c].pc = "done",
                   ![c].resp = RespAddFailed("failed to start watching file")]
    /\ UNCHANGED <<osVars, envVars, now, fstate, nalloc, indexSSEClients, det, evq, hd>>

\* addFile's notifyIndexClients("reload"): take the read lock; with no sink
\* registered return at once. pubs counts the calls of notifyIndexClients.
AddNotify(c) ==
    /\ conn[c].pc = "notify"
    /\ IF indexSSEClients = {}
       THEN conn' = [conn EXCEPT ![c].pc = "done", ![c].pubs = @ + 1,
                                 ![c].resp = RespOK(conn[c].path)]
       ELSE conn' = [conn EXCEPT ![c].pc = "send", ![c].pubs = @ + 1,
                                 ![c].todo = indexSSEClients]
    /\ UNCHANGED <<osVars, envVars, now, files, fstate, nalloc, indexSSEClients,
                   det, evq, hd>>

\* one iteration of notifyIndexClients' loop; after the last one addFile
\* returns nil and the connection answers OK
AddSend(c, h) ==
    /\ conn[c].pc = "send"
    /\ h \in conn[c].todo
    /\ hd' = TrySend(h, "reload")
    /\ conn' = [conn EXCEPT ![c] =
                  IF conn[c].todo = {h}
                  THEN [@ EXCEPT !.pc = "done", !.todo = {},
                                 !.resp = RespOK(conn[c].path)]
                  ELSE [@ EXCEPT !.todo = @ \ {h}]]
    /\ UNCHANGED <<osVars, envVars, now, files, fstate, nalloc, indexSSEClients,
                   det, evq>>

\* ------------------------------------------------------------ environment
\* the raw events two system calls on one file can leave in a queue: inotify
\* merges an event into the last queued one when the two are identical and
\* the watcher has not read that one yet (1), and queues it otherwise (2)
BurstSizes == {1, 2}

Event(name, op) == [name |-> name, op |-> op, at |-> now]

\* the event is the same as the last one of the queue
Merges(queue, e) ==
    /\ queue # <<>>
    /\ queue[Len(queue)].name = e.name
    /\ queue[Len(queue)].op = e.op

\* inotify delivers the events of the directory to every open watcher
Deliver(evs) ==
    [i \in FsIds |-> IF fstate[i].watcher = "open" THEN evq[i] \o evs
                     ELSE evq[i]]

\* one event, in the queue of every open watcher i. Each watcher has an
\* inotify instance and a queue of its own and the kernel merges in each
\* queue by itself: k is one decision of BurstSizes per watcher; the event is
\* merged into the last queued one where it can be and the watcher has not
\* read that one (k[i] = 1), queued otherwise
DeliverOne(e, k) ==
    [i \in FsIds |-> IF fstate[i].watcher # "open" THEN evq[i]
                     ELSE IF k[i] = 1 /\ Merges(evq[i], e) THEN evq[i]
                     ELSE Append(evq[i], e)]

\* a process starts os.WriteFile(p, ..): the open with O_CREATE|O_TRUNC
\* creates the file or truncates it; the file is there and empty
EnvTruncate(p, k) ==
    /\ nenv < MaxEnv
    /\ ~IsEmpty(disk[p])
    /\ disk[p] # Absent => perm[p]
    /\ nenv' = nenv + 1
    /\ disk' = [disk EXCEPT ![p] = Empty(nwrites)]
    /\ perm' = [perm EXCEPT ![p] = TRUE]
    /\ evq' = DeliverOne(Event(p, IF disk[p] = Absent THEN "Create" ELSE "Write"), k)
    /\ UNCHANGED <<osVars, nwrites, now, files, fstate, nalloc, indexSSEClients,
                   conn, det, hd>>

\* the write of that os.WriteFile: the file has its new content (k[i] = 1:
\* the event is merged in queue i where it can be)
EnvWrite(p, k) ==
    /\ nenv < MaxEnv
    /\ IsEmpty(disk[p])
    /\ nenv' = nenv + 1
    /\ nwrites' = nwrites + 1
    /\ disk' = [disk EXCEPT ![p] = nwrites + 1]
    /\ evq' = DeliverOne(Event(p, "Write"), k)
    /\ UNCHANGED <<osVars, perm, now, files, fstate, nalloc, indexSSEClients,
                   conn, det, hd>>

\* a process unlinks the file p (Remove) or renames it away (Rename); no
\* process does so while the file is being written
EnvUnlink(p, op) ==
    /\ nenv < MaxEnv
    /\ p \notin StablePaths
    /\ disk[p] # Absent
    /\ ~IsEmpty(disk[p])
    /\ nenv' = nenv + 1
    /\ disk' = [disk EXCEPT ![p] = Absent]
    /\ perm' = [perm EXCEPT ![p] = TRUE]
    /\ evq' = Deliver(<<Event(p, op)>>)
    /\ UNCHANGED <<osVars, nwrites, now, files, fstate, nalloc, indexSSEClients, conn,
                   det, hd>>

\* a process takes away or gives back the read permission of the file p
EnvChmod(p, k) ==
    /\ nenv < MaxEnv
    /\ p \notin StablePaths
    /\ disk[p] # Absent
    /\ ~IsEmpty(disk[p])
    /\ nenv' = nenv + 1
    /\ perm' = [perm EXCEPT ![p] = ~@]
    /\ evq' = DeliverOne(Event(p, "Chmod"), k)
    /\ UNCHANGED <<osVars, disk, nwrites, now, files, fstate, nalloc, indexSSEClients,
                   conn, det, hd>>

\* a detector is inside time.Sleep
Sleeping == \E i \in FsIds : det[i].pc = "sleep" /\ now < det[i].wake

\* a detector waits for the clock: it sleeps in its retry loop, or its
\* debounce window is open
TimerPending ==
    \/ Sleeping
    \/ \E i \in FsIds :
         det[i].lastReload # ZeroTime /\ now - det[i].lastReload < DebounceDelay

\* the clock advances; it is sampled every SleepMs, and only while a detector
\* waits for it (no step reads the clock otherwise). A sleep always ends.
Tick ==
    /\ now < MaxTicks * SleepMs \/ Sleeping
    /\ TimerPending
    /\ now' = now + SleepMs
    /\ UNCHANGED <<osVars, envVars, files, fstate, nalloc, indexSSEClients, conn, det,
                   evq, hd>>

\* ------------------------------------------------------- change detector
\* now.Sub(lastReload)
Sub(t, u) == IF u = ZeroTime THEN MaxDuration ELSE t - u

\* (mutant) the filter on the file name is missing
NoNameFilter(i, e) == FALSE

\* `filepath.Base(event.Name) != watchFileName`
ForOtherFile(i, e) == e.name # fstate[i].path

\* (mutant) a detector that reloads on every kind of event
HasAnyOp(e) == TRUE

\* event.Has(Write) || event.Has(Create) || event.Has(Rename)
HasReloadOp(e) == e.op \in {"Write", "Create", "Rename"}

\* `now.Sub(lastReload) < debounceDelay`
Debounced(i) == Sub(now, det[i].lastReload) < DebounceDelay

\* the loop `for range 10` has an iteration left after `attempt` of them
AttemptsLeft(attempt) == attempt < MaxAttempts

\* (mutant) a retry loop that sleeps and tries again after every failure
RetryOnAnyError(err) == err # ""

\* `errors.Is(err, os.ErrNotExist)`: sleep and try again
ShouldRetry(err) == IsNotExist(err)

\* (mutant) a failed reload falls through to notifyClients
FailedReloadNotifies(d) == [d EXCEPT !.pc = "notify"]

\* `if err != nil { log.Printf(..); continue }`: back to waiting for events
FailedReload(d) == [d EXCEPT !.pc = "idle"]

\* an event is received from watcher.Events: filter by name and kind,
\* debounce, set lastReload and enter the retry loop
DetEvent(i) ==
    /\ det[i].pc = "idle"
    /\ evq[i] # <<>>
    /\ LET e == Head(evq[i])
       IN /\ evq' = [evq EXCEPT ![i] = Tail(@)]
          /\ det' = IF ForOtherFile(i, e) \/ ~HasReloadOp(e) \/ Debounced(i)
                    THEN det
                    ELSE [det EXCEPT ![i].pc = "render",
                                     ![i].lastReload = now,
                                     ![i].attempt = 0,
                                     ![i].trigAt = e.at]
    /\ UNCHANGED <<osVars, envVars, now, files, fstate, nalloc, indexSSEClients,
                   conn, hd>>

\* an iteration of the retry loop begins: renderMarkdown looks the path up
\* under the registry read lock. "file not tracked" is no ErrNotExist: the
\* loop breaks and the reload has failed
DetRender(i) ==
    /\ det[i].pc = "render"
    /\ LET fs == files[fstate[i].path]
       IN det' = [det EXCEPT ![i] =
                    IF fs = NoFs
                    THEN FailedReload([@ EXCEPT !.attempt = @ + 1])
                    ELSE [@ EXCEPT !.pc = "read", !.attempt = @ + 1, !.fs = fs]]
    /\ UNCHANGED <<osVars, envVars, now, files, fstate, nalloc, indexSSEClients,
                   conn, evq, hd>>

\* the iteration goes on outside every lock: renderMarkdown reads the file
\* and converts it; ErrNotExist sends the loop to sleep, any other error
\* breaks it
DetRead(i) ==
    /\ det[i].pc = "read"
    /\ LET r == RenderRead(fstate[i].path)
       IN det' = [det EXCEPT ![i] =
                    IF r.err = ""
                    THEN [@ EXCEPT !.pc = "store", !.buf = r.buf, !.out = r.buf]
                    ELSE IF ShouldRetry(r.err)
                    THEN [@ EXCEPT !.pc = "sleep", !.wake = now + SleepMs]
                    ELSE FailedReload(@)]
    /\ UNCHANGED <<osVars, envVars, now, files, fstate, nalloc, indexSSEClients,
                   conn, evq, hd>>

\* time.Sleep returns: next iteration, or the loop ends with the error
DetWake(i) ==
    /\ det[i].pc = "sleep"
    /\ now >= det[i].wake
    /\ det' = [det EXCEPT ![i] =
                 IF AttemptsLeft(det[i].attempt) THEN [@ EXCEPT !.pc = "render"]
                 ELSE FailedReload(@)]
    /\ UNCHANGED <<osVars, envVars, now, files, fstate, nalloc, indexSSEClients,
                   conn, evq, hd>>

\* the sinks a stored render is owed to
MarkStale(i) ==
    [h \in Handlers |-> IF h \in fstate[i].sseClients
                        THEN [hd[h] EXCEPT !.stale = TRUE] ELSE hd[h]]

\* (mutant) a renderMarkdown that returns nil without storing the result
DetStoreSkipped(i) ==
    /\ det[i].pc = "store"
    /\ det' = [det EXCEPT ![i].pc = "notify", ![i].buf = NilContent,
                          ![i].lastOkAt = det[i].trigAt]
    /\ hd' = MarkStale(det[i].fs)
    /\ UNCHANGED <<osVars, envVars, now, files, fstate, nalloc, indexSSEClients,
                   conn, evq>>

\* renderMarkdown's store under contentLock
DetStore(i) ==
    /\ det[i].pc = "store"
    /\ fstate' = [fstate EXCEPT ![det[i].fs].htmlContent = det[i].buf]
    /\ det' = [det EXCEPT ![i].pc = "notify", ![i].buf = NilContent,
                          ![i].lastOkAt = det[i].trigAt]
    /\ hd' = MarkStale(det[i].fs)
    /\ UNCHANGED <<osVars, envVars, now, files, nalloc, indexSSEClients, conn, evq>>

\* (mutant) a notifyClients that iterates over the sinks of every file
AllFileSinks(p) ==
    IF files[p] = NoFs THEN {} ELSE UNION {fstate[i].sseClients : i \in FsIds}

\* the sinks notifyClients(p, ..) iterates over
NotifyTargets(p) ==
    IF files[p] = NoFs THEN {} ELSE fstate[files[p]].sseClients

\* notifyClients(filePath, "reload"): look the path up, take the read lock;
\* for an untracked path or with no sink registered return at once
DetNotify(i) ==
    /\ det[i].pc = "notify"
    /\ LET p == fstate[i].path
       IN det' = [det EXCEPT ![i] =
                    IF NotifyTargets(p) = {}
                    THEN [@ EXCEPT !.pc = "idle"]
                    ELSE [@ EXCEPT !.pc = "send", !.fs = files[p],
                                   !.todo = NotifyTargets(p)]]
    /\ UNCHANGED <<osVars, envVars, now, files, fstate, nalloc, indexSSEClients,
                   conn, evq, hd>>

\* one iteration of notifyClients' loop
DetSend(i, h) ==
    /\ det[i].pc = "send"
    /\ h \in det[i].todo
    /\ hd' = TrySend(h, "reload")
    /\ det' = [det EXCEPT ![i] =
                 IF det[i].todo = {h}
                 THEN [@ EXCEPT !.pc = "idle", !.todo = {}]
                 ELSE [@ EXCEPT !.todo = @ \ {h}]]
    /\ UNCHANGED <<osVars, envVars, now, files, fstate, nalloc, indexSSEClients,
                   conn, evq>>

\* ------------------------------------------------------ streaming handlers
Scopes == Paths \cup {IndexScope, ""}

\* handleSSE's checks: 400 without a file parameter, 404 for an untracked one
SSEStatus(s) ==
    IF s = "" THEN 400
    ELSE IF s \in Paths /\ files[s] = NoFs THEN 404
    ELSE 200

\* (mutant) a lookup that finds every path
AlwaysFound(p) == 200

\* handleIndex for ?file=p: 404 for an untracked path
IndexStatus(p) == IF files[p] = NoFs THEN 404 ELSE 200

\* GET /?file=p: the lookup under the registry read lock
PageLookup(h, p) ==
    /\ hd[h].pc = "idle"
    /\ hd' = [hd EXCEPT ![h] =
                IF IndexStatus(p) # 200
                THEN [@ EXCEPT !.pc = "done", !.scope = p, !.status = IndexStatus(p)]
                ELSE [@ EXCEPT !.pc = "page", !.scope = p, !.fs = files[p]]]
    /\ UNCHANGED <<osVars, envVars, now, files, fstate, nalloc, indexSSEClients,
                   conn, det, evq>>

\* GET /?file=p: the content is read under the content read lock of the
\* FileState that the lookup returned and written into the page
PageRead(h) ==
    /\ hd[h].pc = "page"
    /\ hd' = [hd EXCEPT ![h].pc = "done", ![h].status = 200,
                        ![h].body = fstate[hd[h].fs].htmlContent]
    /\ UNCHANGED <<osVars, envVars, now, files, fstate, nalloc, indexSSEClients,
                   conn, det, evq>>

\* a request arrives at /events (scope a path or "") or /events/index
SSEConnect(h, s) ==
    /\ hd[h].pc = "idle"
    /\ hd' = [hd EXCEPT ![h] =
                IF SSEStatus(s) # 200
                THEN [@ EXCEPT !.pc = "done", !.scope = s, !.status = SSEStatus(s)]
                ELSE [@ EXCEPT !.pc = "subscribe", !.scope = s, !.status = 200,
                               !.fs = IF s = IndexScope THEN NoFs ELSE files[s]]]
    /\ UNCHANGED <<osVars, envVars, now, files, fstate, nalloc, indexSSEClients,
                   conn, det, evq>>

\* the sink is registered under the exclusive subscriber lock
SSESubscribe(h) ==
    /\ hd[h].pc = "subscribe"
    /\ IF hd[h].scope = IndexScope
       THEN /\ ~IndexRLocked
            /\ indexSSEClients' = indexSSEClients \cup {h}
            /\ UNCHANGED fstate
       ELSE /\ ~ClientsRLocked(hd[h].fs)
            /\ fstate' = [fstate EXCEPT ![hd[h].fs].sseClients = @ \cup {h}]
            /\ UNCHANGED indexSSEClients
    /\ hd' = [hd EXCEPT ![h].pc = "setup"]
    /\ UNCHANGED <<osVars, envVars, now, files, nalloc, conn, det, evq>>

\* the ticker is created and the handler waits in its select
SSESelect(h) ==
    /\ hd[h].pc = "setup"
    /\ hd' = [hd EXCEPT ![h].pc = "select"]
    /\ UNCHANGED <<osVars, envVars, now, files, fstate, nalloc, indexSSEClients,
                   conn, det, evq>>

\* `case <-ticker.C`: the handler leaves the select to write a keep-alive
SSEKeepalive(h) ==
    /\ hd[h].pc = "select"
    /\ hd' = [hd EXCEPT ![h].pc = "write", ![h].msg = "keepalive"]
    /\ UNCHANGED <<osVars, envVars, now, files, fstate, nalloc, indexSSEClients,
                   conn, det, evq>>

\* the frame is written and flushed: back to the select, or return on error
SSEWrite(h, ok) ==
    /\ hd[h].pc = "write"
    /\ hd' = [hd EXCEPT ![h].pc = IF ok THEN "select" ELSE "exit",
                        ![h].msg = ""]
    /\ UNCHANGED <<osVars, envVars, now, files, fstate, nalloc, indexSSEClients,
                   conn, det, evq>>

\* `case <-r.Context().Done()`: the client went away
SSEDisconnect(h) ==
    /\ hd[h].pc = "select"
    /\ hd' = [hd EXCEPT ![h].pc = "exit"]
    /\ UNCHANGED <<osVars, envVars, now, files, fstate, nalloc, indexSSEClients,
                   conn, det, evq>>

\* (mutant) the handler returns without its deferred function
ReturnSubscribed(h) ==
    /\ hd[h].pc = "exit"
    /\ hd' = [hd EXCEPT ![h].pc = "done", ![h].stale = FALSE]
    /\ UNCHANGED <<osVars, envVars, now, files, fstate, nalloc, indexSSEClients,
                   conn, det, evq>>

\* the body of the deferred function, on the subscriber map and the sink of
\* h: delete(clients, clientChan); close(clientChan). Closing a closed
\* channel panics.
Unsubscribe(clients, closed, h) ==
    [clients |-> clients \ {h}, closed |-> TRUE, panic |-> closed]

\* the deferred function runs under the exclusive lock of the scope
SSEUnsubscribe(h) ==
    /\ hd[h].pc = "exit"
    /\ LET r == Unsubscribe(IF hd[h].scope = IndexScope THEN indexSSEClients
                            ELSE fstate[hd[h].fs].sseClients,
                            hd[h].closed, h)
       IN /\ IF hd[h].scope = IndexScope
             THEN /\ ~IndexRLocked
                  /\ indexSSEClients' = r.clients
                  /\ UNCHANGED fstate
             ELSE /\ ~ClientsRLocked(hd[h].fs)
                  /\ fstate' = [fstate EXCEPT ![hd[h].fs].sseClients = r.clients]
                  /\ UNCHANGED indexSSEClients
          /\ hd' = [hd EXCEPT ![h].pc = IF r.panic THEN "panic" ELSE "done",
                              ![h].closed = r.closed, ![h].stale = FALSE]
    /\ UNCHANGED <<osVars, envVars, now, files, nalloc, conn, det, evq>>

\* ------------------------------------------------- command invocations
\* the invocation q is a running process
Alive(q) == proc[q].pc \notin {"idle", "exited"}

\* the running processes whose control listener is the socket s
ListenersOf(s) == {q \in Procs : Alive(q) /\ proc[q].lsn = s}

\* (mutant) an instance is taken to run when the artifact exists
ArtifactExists == sockFile # NoSock

\* net.Dial("unix", socketPath) succeeds: the path names a socket on which a
\* running process listens
CanConnect == sockFile # NoSock /\ ListenersOf(sockFile) # {}

\* net.Listen("tcp", addr) succeeds: no running process listens on the port
PortFree(n) == \A q \in Procs : ~(Alive(q) /\ proc[q].http /\ proc[q].port = n)

\* the process returns from run() with an exit code; its listeners close, the
\* artifact it may have bound stays
Exited(r, code) ==
    [r EXCEPT !.pc = "exited", !.code = code, !.lsn = NoSock, !.http = FALSE,
              !.sig = FALSE]

\* fmt.Sprintf("http://%s/?file=%s", addr, filePath), addr "127.0.0.1:port"
UrlOneOff(port, t) ==
    <<"http://", "127.0.0.1:">> \o Itoa(port) \o <<"/?file=">> \o t

\* addFile run to its end with no other add beside it: the error ("" for
\* nil) and the registry afterwards; ok is the outcome of the watch setup
AddOutcome(reg, p, ok) ==
    IF p \in reg THEN [err |-> "", reg |-> reg]
    ELSE IF ReadErr(p) # "" THEN [err |-> "failed to render file", reg |-> reg]
    ELSE IF ~ok THEN [err |-> "failed to start watching file", reg |-> reg]
    ELSE [err |-> "", reg |-> reg \cup {p}]

\* handleControlCommand of a server with registry reg and port n on the text
\* received, up to the end of addFile's locked section: the line is read and
\* parsed, the path stat-ed; addFile returns nil for a tracked path and
\* inserts an untracked one. The response (none yet while addFile goes on:
\* adding) and the registry afterwards.
HandleBegin(reg, n, text) ==
    LET parts == SplitN2(TrimSpace(ReadString(text)))
    IN IF ~HasLine(text) THEN [resp |-> <<>>, reg |-> reg, adding |-> FALSE]
       ELSE IF ~IsAdd(parts)
       THEN [resp |-> RespInvalid, reg |-> reg, adding |-> FALSE]
       ELSE IF StatTextNotExist(parts[2])
       THEN [resp |-> RespNoFile(parts[2]), reg |-> reg, adding |-> FALSE]
       ELSE IF FileOf(parts[2]) \in reg
       THEN [resp |-> RespOKText(n, parts[2]), reg |-> reg, adding |-> FALSE]
       ELSE [resp |-> <<>>, reg |-> reg \cup {FileOf(parts[2])},
             adding |-> TRUE]

\* the rest of that addFile and the response: the initial render and the
\* watch setup (outcome ok); a failure deletes the entry again
HandleEnd(reg, n, text, ok) ==
    LET parts == SplitN2(TrimSpace(ReadString(text)))
        p == FileOf(parts[2])
    IN IF ReadErr(p) # ""
       THEN [resp |-> RespAddFailed("failed to render file"), reg |-> reg \ {p}]
       ELSE IF ~ok
       THEN [resp |-> RespAddFailed("failed to start watching file"),
             reg |-> reg \ {p}]
       ELSE [resp |-> RespOKText(n, parts[2]), reg |-> reg]

\* the outcomes the watch setup can have when the text is handled
AddOutcomes(text) ==
    LET parts == SplitN2(TrimSpace(ReadString(text)))
    IN IF HasLine(text) /\ IsAdd(parts) /\ FileOf(parts[2]) # ""
       THEN WatchOutcomes(FileOf(parts[2]))
       ELSE {TRUE}

\* the files and ports of the command lines
AutoArgs == {"a.md", "b.md", SpacedPath}
DaemonArgs == {"", "a.md"}

\* `lum [-p n] FILE` or `lum --daemon [-p n] [FILE]` is started
Invoke(q, mode, p, n) ==
    /\ proc[q].pc = "idle"
    /\ proc' = [proc EXCEPT ![q] =
                  [@ EXCEPT !.pc = IF mode = "auto" THEN "stat" ELSE "dcheck",
                            !.mode = mode, !.arg = p, !.port = n]]
    /\ UNCHANGED <<flow, disk, perm, nenv, nwrites, now, files, fstate, nalloc,
                   indexSSEClients, conn, det, evq, hd, sockFile, nsock>>

\* run(): os.Stat of the file argument
RunStat(q) ==
    /\ proc[q].pc = "stat"
    /\ proc' = [proc EXCEPT ![q] =
                  IF StatNotExist(proc[q].arg) THEN Exited(@, 1)
                  ELSE [@ EXCEPT !.pc = "probe"]]
    /\ UNCHANGED <<flow, disk, perm, nenv, nwrites, now, files, fstate, nalloc,
                   indexSSEClients, conn, det, evq, hd, sockFile, nsock>>

\* the errors tryAddToExistingServer returns to run()
ErrNoSocket == "no existing server (socket does not exist)"
ErrConnect == "failed to connect to existing server"
ErrSend == "failed to send command"
ErrRead == "failed to read response"
ErrServer == "server error"
ErrUnexpected == "unexpected response"

\* the process that accepts the connections made to the socket s
Owner(s) ==
    IF ListenersOf(s) = {} THEN "" ELSE CHOOSE d \in ListenersOf(s) : TRUE

\* tryAddToExistingServer: os.Stat of the endpoint path
ProbeStat(q) ==
    /\ proc[q].pc = "probe"
    /\ proc' = [proc EXCEPT ![q] =
                  IF sockFile = NoSock
                  THEN [@ EXCEPT !.pc = "oneoff", !.err = ErrNoSocket]
                  ELSE [@ EXCEPT !.pc = "dial"]]
    /\ UNCHANGED <<flow, disk, perm, nenv, nwrites, now, files, fstate, nalloc,
                   indexSSEClients, conn, det, evq, hd, sockFile, nsock>>

\* tryAddToExistingServer: net.Dial
ProbeDial(q) ==
    /\ proc[q].pc = "dial"
    /\ proc' = [proc EXCEPT ![q] =
                  IF CanConnect
                  THEN [@ EXCEPT !.pc = "send", !.peer = Owner(sockFile)]
                  ELSE [@ EXCEPT !.pc = "oneoff", !.err = ErrConnect]]
    /\ UNCHANGED <<flow, disk, perm, nenv, nwrites, now, files, fstate, nalloc,
                   indexSSEClients, conn, det, evq, hd, sockFile, nsock>>

\* tryAddToExistingServer: "ADD %s\n" is written to the connection; the
\* write fails when the server has died since the connect
ProbeSend(q) ==
    /\ proc[q].pc = "send"
    /\ proc' = [proc EXCEPT ![q] =
                  IF Alive(proc[q].peer)
                  THEN [@ EXCEPT !.pc = "await",
                                 !.sent = AddLine(PathText(proc[q].arg))]
                  ELSE [@ EXCEPT !.pc = "oneoff", !.err = ErrSend]]
    /\ UNCHANGED <<flow, disk, perm, nenv, nwrites, now, files, fstate, nalloc,
                   indexSSEClients, conn, det, evq, hd, sockFile, nsock>>

\* the line that q wrote to the server d has not been answered
Unanswered(d, q) ==
    /\ proc[q].peer = d
    /\ Alive(d)
    /\ proc[q].sent # <<>>
    /\ proc[q].resp = <<>>

\* the goroutine handleControlCommand of the server d for the connection of
\* q takes a step: up to addFile's insertion, or from there to the response
\* (ok: the outcome of the watch setup); r is the record of q afterwards
Handle(d, q, ok, r) ==
    IF ~proc[q].adding
    THEN LET b == HandleBegin(proc[d].reg, proc[d].port, proc[q].sent)
         IN /\ ok
            /\ proc' = [proc EXCEPT
                          ![d].reg = b.reg,
                          ![q] = IF b.adding THEN [@ EXCEPT !.adding = TRUE]
                                 ELSE [r EXCEPT !.resp = b.resp]]
    ELSE LET e == HandleEnd(proc[d].reg, proc[d].port, proc[q].sent, ok)
         IN /\ ok \in AddOutcomes(proc[q].sent)
            /\ proc' = [proc EXCEPT
                          ![d].reg = e.reg,
                          ![q] = [r EXCEPT !.resp = e.resp, !.adding = FALSE]]

\* the server d handles the connection of q, which waits for the response
Serve(d, q, ok) ==
    /\ proc[q].pc = "await"
    /\ Unanswered(d, q)
    /\ Handle(d, q, ok, [proc[q] EXCEPT !.pc = "read"])
    /\ UNCHANGED <<flow, disk, perm, nenv, nwrites, now, files, fstate, nalloc,
                   indexSSEClients, conn, det, evq, hd, sockFile, nsock>>

\* the server died before it answered: reader.ReadString fails
ProbeReadFails(q) ==
    /\ proc[q].pc = "await"
    /\ ~Alive(proc[q].peer)
    /\ proc' = [proc EXCEPT ![q].pc = "oneoff", ![q].err = ErrRead]
    /\ UNCHANGED <<flow, disk, perm, nenv, nwrites, now, files, fstate, nalloc,
                   indexSSEClients, conn, det, evq, hd, sockFile, nsock>>

\* tryAddToExistingServer parses the response; run() prints the URL and
\* returns 0, or goes on to startOneOff on any error
ProbeRead(q) ==
    /\ proc[q].pc = "read"
    /\ LET cut == CutPrefix(TrimSpace(proc[q].resp), <<"OK", " ">>)
           bad == CutPrefix(TrimSpace(proc[q].resp), <<"ERROR", " ">>)
       IN proc' = [proc EXCEPT ![q] =
                     IF cut.found
                     THEN Exited([@ EXCEPT !.out = cut.rest \o <<"\n">>], 0)
                     ELSE [@ EXCEPT !.pc = "oneoff",
                             !.err = IF bad.found THEN ErrServer
                                     ELSE ErrUnexpected]]
    /\ UNCHANGED <<flow, disk, perm, nenv, nwrites, now, files, fstate, nalloc,
                   indexSSEClients, conn, det, evq, hd, sockFile, nsock>>

\* startOneOff: addFile
OneOffAdd(q, ok) ==
    /\ proc[q].pc = "oneoff"
    /\ ok \in WatchOutcomes(proc[q].arg)
    /\ LET r == AddOutcome(proc[q].reg, proc[q].arg, ok)
       IN proc' = [proc EXCEPT ![q] =
                     IF r.err # "" THEN Exited(@, 1)
                     ELSE [@ EXCEPT !.pc = "listen", !.reg = r.reg]]
    /\ UNCHANGED <<flow, disk, perm, nenv, nwrites, now, files, fstate, nalloc,
                   indexSSEClients, conn, det, evq, hd, sockFile, nsock>>

\* startOneOff: net.Listen on the port, the URL is printed, http.Serve
OneOffListen(q) ==
    /\ proc[q].pc = "listen"
    /\ proc' = [proc EXCEPT ![q] =
                  IF PortFree(proc[q].port)
                  THEN [@ EXCEPT !.pc = "serving", !.http = TRUE,
                          !.out = UrlOneOff(proc[q].port, PathText(proc[q].arg))
                                  \o <<"\n">>]
                  ELSE Exited(@, 1)]
    /\ UNCHANGED <<flow, disk, perm, nenv, nwrites, now, files, fstate, nalloc,
                   indexSSEClients, conn, det, evq, hd, sockFile, nsock>>

\* run(), --daemon: daemonExists, os.Stat of the initial file, daemonize;
\* the invocation goes on as the daemonized child
DaemonCheck(q) ==
    /\ proc[q].pc = "dcheck"
    /\ proc' = [proc EXCEPT ![q] =
                  IF CanConnect THEN Exited(@, 1)
                  ELSE IF proc[q].arg # "" /\ StatNotExist(proc[q].arg)
                  THEN Exited(@, 1)
                  ELSE [@ EXCEPT !.pc = "dremove"]]
    /\ UNCHANGED <<flow, disk, perm, nenv, nwrites, now, files, fstate, nalloc,
                   indexSSEClients, conn, det, evq, hd, sockFile, nsock>>

\* startControlSocket: os.Remove(socketPath)
CtlRemove(q) ==
    /\ proc[q].pc = "dremove"
    /\ sockFile' = NoSock
    /\ proc' = [proc EXCEPT ![q].pc = "dbind"]
    /\ UNCHANGED <<flow, disk, perm, nenv, nwrites, now, files, fstate, nalloc,
                   indexSSEClients, conn, det, evq, hd, nsock>>

\* startControlSocket: net.Listen("unix", socketPath) creates the socket
\* file, and fails when the path exists
CtlBind(q) ==
    /\ proc[q].pc = "dbind"
    /\ IF sockFile # NoSock
       THEN /\ proc' = [proc EXCEPT ![q] = Exited(@, 1)]
            /\ UNCHANGED <<sockFile, nsock>>
       ELSE /\ nsock' = nsock + 1
            /\ sockFile' = nsock + 1
            /\ proc' = [proc EXCEPT ![q].pc = "dnotify", ![q].lsn = nsock + 1]
    /\ UNCHANGED <<flow, disk, perm, nenv, nwrites, now, files, fstate, nalloc,
                   indexSSEClients, conn, det, evq, hd>>

\* startDaemon: signal.Notify for os.Interrupt and SIGTERM and the goroutine
\* that waits for them
DaemonNotify(q) ==
    /\ proc[q].pc = "dnotify"
    /\ proc' = [proc EXCEPT ![q].pc = "dadd"]
    /\ UNCHANGED <<flow, disk, perm, nenv, nwrites, now, files, fstate, nalloc,
                   indexSSEClients, conn, det, evq, hd, sockFile, nsock>>

\* startDaemon: addFile of the initial file, if one was given, up to the end
\* of its locked section: it returns nil for a path that a control handler
\* has inserted already, and inserts the path otherwise
DaemonAdd(q) ==
    /\ proc[q].pc = "dadd"
    /\ proc' = [proc EXCEPT ![q] =
                  IF proc[q].arg = "" \/ proc[q].arg \in proc[q].reg
                  THEN [@ EXCEPT !.pc = "dlisten"]
                  ELSE [@ EXCEPT !.pc = "dsetup", !.reg = @ \cup {proc[q].arg}]]
    /\ UNCHANGED <<flow, disk, perm, nenv, nwrites, now, files, fstate, nalloc,
                   indexSSEClients, conn, det, evq, hd, sockFile, nsock>>

\* startDaemon: the rest of that addFile, the initial render and the watch
\* setup (outcome ok); a failure deletes the entry and startDaemon returns
\* the error
DaemonSetup(q, ok) ==
    /\ proc[q].pc = "dsetup"
    /\ ok \in WatchOutcomes(proc[q].arg)
    /\ proc' = [proc EXCEPT ![q] =
                  IF ReadErr(proc[q].arg) # "" \/ ~ok
                  THEN Exited([@ EXCEPT !.reg = @ \ {proc[q].arg}], 1)
                  ELSE [@ EXCEPT !.pc = "dlisten"]]
    /\ UNCHANGED <<flow, disk, perm, nenv, nwrites, now, files, fstate, nalloc,
                   indexSSEClients, conn, det, evq, hd, sockFile, nsock>>

\* startDaemon: http.ListenAndServe
DaemonListen(q) ==
    /\ proc[q].pc = "dlisten"
    /\ proc' = [proc EXCEPT ![q] =
                  IF PortFree(proc[q].port)
                  THEN [@ EXCEPT !.pc = "serving", !.http = TRUE]
                  ELSE Exited(@, 1)]
    /\ UNCHANGED <<flow, disk, perm, nenv, nwrites, now, files, fstate, nalloc,
                   indexSSEClients, conn, det, evq, hd, sockFile, nsock>>

\* the process has passed signal.Notify
HandlerInstalled(q) ==
    proc[q].mode = "daemon"
        /\ proc[q].pc \in {"dadd", "dsetup", "dlisten", "serving"}

\* SIGINT or SIGTERM to a daemon whose handler is installed: the signal
\* goroutine receives from sigChan and runs cleanupSocket, whose os.Remove
\* removes whatever is at the endpoint path. The process keeps its listeners
\* and its other goroutines run on; the goroutine has no second receive
Signal(q) ==
    /\ HandlerInstalled(q)
    /\ ~proc[q].sig
    /\ sockFile' = NoSock
    /\ proc' = [proc EXCEPT ![q].sig = TRUE]
    /\ UNCHANGED <<flow, disk, perm, nenv, nwrites, now, files, fstate, nalloc,
                   indexSSEClients, conn, det, evq, hd, nsock>>

\* the signal goroutine goes on after cleanupSocket: os.Exit(0)
HandlerExit(q) ==
    /\ Alive(q)
    /\ proc[q].sig
    /\ proc' = [proc EXCEPT ![q] = Exited(@, 0)]
    /\ UNCHANGED <<flow, disk, perm, nenv, nwrites, now, files, fstate, nalloc,
                   indexSSEClients, conn, det, evq, hd, sockFile, nsock>>

\* exit codes of a process ended by SIGKILL and by SIGTERM
Killed == 137
Terminated == 143

\* SIGINT or SIGTERM to a process that has not called signal.Notify: the Go
\* runtime ends the process, nothing is cleaned up
Terminate(q) ==
    /\ Alive(q)
    /\ ~HandlerInstalled(q)
    /\ proc' = [proc EXCEPT ![q] = Exited(@, Terminated)]
    /\ UNCHANGED <<flow, disk, perm, nenv, nwrites, now, files, fstate, nalloc,
                   indexSSEClients, conn, det, evq, hd, sockFile, nsock>>

\* the process dies without running any cleanup
Crash(q) ==
    /\ Alive(q)
    /\ proc' = [proc EXCEPT ![q] = Exited(@, Killed)]
    /\ UNCHANGED <<flow, disk, perm, nenv, nwrites, now, files, fstate, nalloc,
                   indexSSEClients, conn, det, evq, hd, sockFile, nsock>>

\* `lum --stop` is started
InvokeStop(q) ==
    /\ proc[q].pc = "idle"
    /\ proc' = [proc EXCEPT ![q].pc = "sstat", ![q].mode = "stop"]
    /\ UNCHANGED <<flow, disk, perm, nenv, nwrites, now, files, fstate, nalloc,
                   indexSSEClients, conn, det, evq, hd, sockFile, nsock>>

\* stopDaemon: os.Stat of the endpoint path
StopStat(q) ==
    /\ proc[q].pc = "sstat"
    /\ proc' = [proc EXCEPT ![q] =
                  IF sockFile = NoSock
                  THEN Exited([@ EXCEPT !.err = "no daemon running"], 1)
                  ELSE [@ EXCEPT !.pc = "sdial"]]
    /\ UNCHANGED <<flow, disk, perm, nenv, nwrites, now, files, fstate, nalloc,
                   indexSSEClients, conn, det, evq, hd, sockFile, nsock>>

\* stopDaemon: dialSocket connects to the endpoint
StopDial(q) ==
    /\ proc[q].pc = "sdial"
    /\ proc' = [proc EXCEPT ![q] =
                  IF CanConnect
                  THEN [@ EXCEPT !.pc = "ssend", !.peer = Owner(sockFile)]
                  ELSE Exited([@ EXCEPT !.err = "failed to connect to daemon"], 1)]
    /\ UNCHANGED <<flow, disk, perm, nenv, nwrites, now, files, fstate, nalloc,
                   indexSSEClients, conn, det, evq, hd, sockFile, nsock>>

\* stopDaemon: "STOP\n" is written, the connection is closed without reading
\* a response, run() returns 0; the write fails when the daemon has died
\* since the connect, and run() returns 1
StopSend(q) ==
    /\ proc[q].pc = "ssend"
    /\ proc' = [proc EXCEPT ![q] =
                  IF Alive(proc[q].peer)
                  THEN Exited([@ EXCEPT !.sent = <<"STOP", "\n">>], 0)
                  ELSE Exited([@ EXCEPT !.err = "failed to send STOP command"], 1)]
    /\ UNCHANGED <<flow, disk, perm, nenv, nwrites, now, files, fstate, nalloc,
                   indexSSEClients, conn, det, evq, hd, sockFile, nsock>>

\* the server d handles the connection on which q wrote its line and which q
\* has closed: handleControlCommand; the response goes to the closed
\* connection
ServeClosed(d, q, ok) ==
    /\ proc[q].pc = "exited"
    /\ Unanswered(d, q)
    /\ Handle(d, q, ok, proc[q])
    /\ UNCHANGED <<flow, disk, perm, nenv, nwrites, now, files, fstate, nalloc,
                   indexSSEClients, conn, det, evq, hd, sockFile, nsock>>

CliStep(q) ==
    \/ \E p \in AutoArgs, n \in CliPorts : Invoke(q, "auto", p, n)
    \/ \E p \in DaemonArgs, n \in CliPorts : Invoke(q, "daemon", p, n)
    \/ RunStat(q)
    \/ ProbeStat(q)
    \/ ProbeDial(q)
    \/ ProbeSend(q)
    \/ \E d \in Procs, ok \in BOOLEAN : Serve(d, q, ok)
    \/ \E d \in Procs, ok \in BOOLEAN : ServeClosed(d, q, ok)
    \/ ProbeReadFails(q)
    \/ ProbeRead(q)
    \/ \E ok \in BOOLEAN : OneOffAdd(q, ok)
    \/ OneOffListen(q)
    \/ DaemonCheck(q)
    \/ CtlRemove(q)
    \/ CtlBind(q)
    \/ DaemonNotify(q)
    \/ DaemonAdd(q)
    \/ \E ok \in BOOLEAN : DaemonSetup(q, ok)
    \/ DaemonListen(q)
    \/ Signal(q)
    \/ HandlerExit(q)
    \/ Terminate(q)
    \/ Crash(q)

\* the environment steps of the command-line specification
CliEnvStep ==
    \E p \in Paths \ StablePaths :
        \/ EnvUnlink(p, "Remove")
        \/ \E k \in [FsIds -> BurstSizes] : EnvChmod(p, k)

NextCli == (\E q \in Procs : CliStep(q)) \/ CliEnvStep

SpecCli == Init /\ [][NextCli]_vars

\* SpecStop: daemons on the default port, `lum --stop`, and signals
\* the steps of the program of the invocation q
StopProgStep(q) ==
    \/ DaemonCheck(q)
    \/ CtlRemove(q)
    \/ CtlBind(q)
    \/ DaemonNotify(q)
    \/ DaemonAdd(q)
    \/ \E ok \in BOOLEAN : DaemonSetup(q, ok)
    \/ DaemonListen(q)
    \/ HandlerExit(q)
    \/ StopStat(q)
    \/ StopDial(q)
    \/ StopSend(q)
    \/ \E d \in Procs, ok \in BOOLEAN : ServeClosed(d, q, ok)

\* the commands a user starts and the signals sent to the processes
StopUserStep(q) ==
    \/ \E p \in DaemonArgs : Invoke(q, "daemon", p, Port)
    \/ InvokeStop(q)
    \/ Signal(q)
    \/ Terminate(q)
    \/ Crash(q)

NextStop == \E q \in Procs : StopProgStep(q) \/ StopUserStep(q)

SpecStop == Init /\ [][NextStop]_vars

\* the same with the scheduling of the program: no process is starved; the
\* user need not start a command or send a signal
FairSpecStop ==
    /\ SpecStop
    /\ \A q \in Procs : WF_vars(StopProgStep(q))

\* ------------------------------------------------------------------ locks
\* SpecLock: the four sync.RWMutex of the server and the goroutines that take
\* them. A goroutine runs the lock operations and the suspensions of one path
\* through its function, in order: <<"Lock", l>>, <<"Unlock", l>>,
\* <<"RLock", l>>, <<"RUnlock", l>>, and <<"wait", k>> for a suspension on the
\* network ("read", "write"), on the select of a streaming loop ("select":
\* sink, keep-alive timer or disconnect), on the watcher's channels ("event")
\* or in the retry sleep ("backoff"). contentLock and clientsLock are those of
\* one FileState.
Locks == {"filesLock", "contentLock", "clientsLock", "indexSSEClientsLock"}

\* (mutant) an insertion that keeps the registry lock for the rest of addFile
InsertHolding == <<<<"Lock", "filesLock">>>>

\* addFile's check and insertion, and likewise its delete on failure
InsertLocks == <<<<"Lock", "filesLock">>, <<"Unlock", "filesLock">>>>

\* renderMarkdown: the lookup, then (if the file was read and converted) the
\* store
RenderLocks(ok) ==
    <<<<"RLock", "filesLock">>, <<"RUnlock", "filesLock">>>> \o
    (IF ok THEN <<<<"Lock", "contentLock">>, <<"Unlock", "contentLock">>>>
     ELSE <<>>)

\* notifyIndexClients: the non-blocking sends happen under the read lock
NotifyIndexLocks ==
    <<<<"RLock", "indexSSEClientsLock">>, <<"RUnlock", "indexSSEClientsLock">>>>

\* (mutant) a publish that looks the subscribers up inside the registry lock
NotifyNested ==
    <<<<"RLock", "filesLock">>, <<"RLock", "clientsLock">>,
      <<"RUnlock", "clientsLock">>, <<"RUnlock", "filesLock">>>>

\* notifyClients: the lookup, then the non-blocking sends under the read lock
\* of the subscriber set
NotifyLocks ==
    <<<<"RLock", "filesLock">>, <<"RUnlock", "filesLock">>,
      <<"RLock", "clientsLock">>, <<"RUnlock", "clientsLock">>>>

\* handleControlCommand with addFile: an already tracked path, a failed
\* render, a failed watch setup (startWatchingFile takes the registry lock to
\* store the watcher), success
AddFilePrograms ==
    {<<<<"wait", "read">>>> \o body \o <<<<"wait", "write">>>> :
        body \in {InsertLocks,
                  InsertLocks \o RenderLocks(FALSE) \o InsertLocks,
                  InsertLocks \o RenderLocks(TRUE) \o InsertLocks \o InsertLocks,
                  InsertLocks \o RenderLocks(TRUE) \o InsertLocks
                      \o NotifyIndexLocks}}

\* handleIndex for ?file=p (untracked, tracked), handleStaticAsset's lookup,
\* and renderIndexPage, which executes the template into the response before
\* its deferred RUnlock
PagePrograms ==
    {<<<<"RLock", "filesLock">>, <<"RUnlock", "filesLock">>, <<"wait", "write">>>>,
     <<<<"RLock", "filesLock">>, <<"RUnlock", "filesLock">>,
       <<"RLock", "contentLock">>, <<"RUnlock", "contentLock">>,
       <<"wait", "write">>>>,
     <<<<"RLock", "filesLock">>, <<"wait", "write">>, <<"RUnlock", "filesLock">>>>}

\* handleSSE (untracked, tracked) and handleIndexSSE: subscribe, one turn of
\* the loop, the deferred unsubscribe
SSEPrograms ==
    {<<<<"RLock", "filesLock">>, <<"RUnlock", "filesLock">>, <<"wait", "write">>>>,
     <<<<"RLock", "filesLock">>, <<"RUnlock", "filesLock">>,
       <<"Lock", "clientsLock">>, <<"Unlock", "clientsLock">>,
       <<"wait", "select">>, <<"wait", "write">>,
       <<"Lock", "clientsLock">>, <<"Unlock", "clientsLock">>>>,
     <<<<"Lock", "indexSSEClientsLock">>, <<"Unlock", "indexSSEClientsLock">>,
       <<"wait", "select">>, <<"wait", "write">>,
       <<"Lock", "indexSSEClientsLock">>, <<"Unlock", "indexSSEClientsLock">>>>}

\* one turn of the detector: an event, the render (at once, after a retry, or
\* failing), the publish
DetectorPrograms ==
    {<<<<"wait", "event">>>> \o RenderLocks(TRUE) \o NotifyLocks,
     <<<<"wait", "event">>>> \o RenderLocks(FALSE) \o <<<<"wait", "backoff">>>>
         \o RenderLocks(TRUE) \o NotifyLocks,
     <<<<"wait", "event">>>> \o RenderLocks(FALSE)}

\* f1 serves control connections, f2 serves HTTP requests, f3 is any
\* goroutine (a detector, or a second one of the others)
Programs(f) ==
    IF f = "f1" THEN AddFilePrograms
    ELSE IF f = "f2" THEN PagePrograms \cup SSEPrograms
    ELSE AddFilePrograms \cup PagePrograms \cup SSEPrograms \cup DetectorPrograms

\* the operation the goroutine f is at
Instr(f) ==
    IF flow[f].pc \in DOMAIN flow[f].prog THEN flow[f].prog[flow[f].pc]
    ELSE <<"none", "">>

\* sync.RWMutex: the writer that holds l or that has announced itself and
\* waits for the readers to leave; the readers that hold l
WOwner(l) ==
    {g \in Flows : \/ <<l, "W">> \in flow[g].held
                   \/ Instr(g) = <<"Lock", l>> /\ flow[g].phase = "announced"}

Readers(l) == {g \in Flows : <<l, "R">> \in flow[g].held}

\* the goroutine after its current operation; it ends after its last one
Advance(r, held) ==
    IF r.pc = Len(r.prog) THEN IdleFlow
    ELSE [r EXCEPT !.pc = @ + 1, !.phase = "run", !.held = held]

\* a goroutine starts
FlowBegin(f, prog) ==
    /\ flow[f] = IdleFlow
    /\ flow' = [flow EXCEPT ![f].prog = prog]
    /\ UNCHANGED <<sockFile, nsock, proc, envVars, now, files, fstate, nalloc,
                   indexSSEClients, conn, det, evq, hd>>

\* Lock: take the writers' mutex (later readers queue), then wait until the
\* readers have left. RLock: enter unless a writer holds or has announced
\* itself, else queue. Unlock lets the queued readers in. RUnlock leaves.
FlowStep(f) ==
    /\ LET op == Instr(f)[1]
           l == Instr(f)[2]
           r == flow[f]
       IN \/ /\ op = "Lock" /\ r.phase = "run" /\ WOwner(l) = {}
             /\ flow' = [flow EXCEPT ![f].phase = "announced"]
          \/ /\ op = "Lock" /\ r.phase = "announced" /\ Readers(l) = {}
             /\ flow' = [flow EXCEPT ![f] = Advance(r, r.held \cup {<<l, "W">>})]
          \/ /\ op = "RLock" /\ r.phase = "run"
             /\ flow' = [flow EXCEPT ![f] =
                           IF WOwner(l) = {}
                           THEN Advance(r, r.held \cup {<<l, "R">>})
                           ELSE [r EXCEPT !.phase = "queued"]]
          \/ /\ op = "Unlock"
             /\ flow' = [g \in Flows |->
                           IF g = f THEN Advance(r, r.held \ {<<l, "W">>})
                           ELSE IF Instr(g) = <<"RLock", l>> /\ flow[g].phase = "queued"
                           THEN Advance(flow[g], flow[g].held \cup {<<l, "R">>})
                           ELSE flow[g]]
          \/ /\ op = "RUnlock"
             /\ flow' = [flow EXCEPT ![f] = Advance(r, r.held \ {<<l, "R">>})]
    /\ UNCHANGED <<sockFile, nsock, proc, envVars, now, files, fstate, nalloc,
                   indexSSEClients, conn, det, evq, hd>>

\* the suspension of f ends: bytes were read or written (or the peer is
\* gone), a message, a tick or an event arrived, the sleep is over
FlowResume(f) ==
    /\ Instr(f)[1] = "wait"
    /\ flow' = [flow EXCEPT ![f] = Advance(flow[f], flow[f].held)]
    /\ UNCHANGED <<sockFile, nsock, proc, envVars, now, files, fstate, nalloc,
                   indexSSEClients, conn, det, evq, hd>>

SpecLock ==
    Init /\ [][\E f \in Flows : \/ \E prog \in Programs(f) : FlowBegin(f, prog)
                               \/ FlowStep(f)
                               \/ FlowResume(f)]_vars

\* the same with the scheduling of the runtime: a goroutine that can take its
\* next step takes it, a goroutine queued on a mutex gets it when it is free
\* again and again (sync.Mutex hands over to a starving waiter), and every
\* suspension ends
FairSpecLock ==
    /\ SpecLock
    /\ \A f \in Flows : SF_vars(FlowStep(f) \/ FlowResume(f))

\* ------------------------------------------------------------------- Next
\* Spec: the registry. Control connections add files while the files change
\* on disk and the detectors of the added files run.
ConnStep ==
    \E c \in Conns :
        \/ \E p \in Paths : CtlRead(c, AddLine(PathText(p)))
        \/ AddCheck(c)
        \/ AddRender(c)
        \/ AddRead(c)
        \/ AddRenderFailed(c)
        \/ AddStore(c)
        \/ AddWatch(c)
        \/ AddWatchDir(c)
        \/ AddWatchFailed(c)
        \/ AddNotify(c)

EnvStep ==
    \/ \E p \in Paths, k \in [FsIds -> BurstSizes] : EnvTruncate(p, k)
    \/ \E p \in Paths, k \in [FsIds -> BurstSizes] : EnvWrite(p, k)
    \/ \E p \in Paths, op \in {"Remove", "Rename"} : EnvUnlink(p, op)
    \/ \E p \in Paths, k \in [FsIds -> BurstSizes] : EnvChmod(p, k)

DetStep ==
    \E i \in FsIds :
        \/ DetEvent(i)
        \/ DetRender(i)
        \/ DetRead(i)
        \/ DetWake(i)
        \/ DetStore(i)
        \/ DetNotify(i)

\* the whole program is run to the end of one debounce window, and on while
\* a detector sleeps; it is given one environment step fewer than its parts
ClockStep == (now < DebounceDelay \/ Sleeping) /\ Tick

SpecEnvStep == nenv + 1 < MaxEnv /\ EnvStep

Next == ConnStep \/ SpecEnvStep \/ DetStep \/ ClockStep

Spec == Init /\ [][Next]_vars

\* SpecHub: the notification hub. The state after the connection c1 has added
\* "b.md"; from there clients of the tracked file and of the index page
\* subscribe and leave while the detector publishes reloads of the file and a
\* second connection adds files, which publishes to the index page.
TrackedPath == "b.md"

InitHub ==
    /\ OsIdle
    /\ disk = [p \in DiskPaths |-> 0]
    /\ perm = [p \in DiskPaths |-> TRUE]
    /\ nenv = 0
    /\ nwrites = 0
    /\ now = 0
    /\ files = [p \in Paths |-> IF p = TrackedPath THEN 1 ELSE NoFs]
    /\ fstate = [i \in FsIds |->
                   IF i = 1
                   THEN [NewFileState(TrackedPath) EXCEPT
                           !.htmlContent = Convert(0), !.watcher = "open"]
                   ELSE FreeFileState]
    /\ nalloc = 1
    /\ indexSSEClients = {}
    /\ conn = [c \in Conns |->
                 IF c = "c1"
                 THEN [IdleConn EXCEPT !.pc = "done", !.path = TrackedPath,
                                       !.fs = 1, !.resp = RespOK(TrackedPath),
                                       !.pubs = 1,
                                       !.line = AddLine(PathText(TrackedPath))]
                 ELSE IdleConn]
    /\ det = [i \in FsIds |->
                IF i = 1 THEN [IdleDetector EXCEPT !.pc = "idle"]
                ELSE IdleDetector]
    /\ evq = [i \in FsIds |-> <<>>]
    /\ hd = [h \in Handlers |-> IdleHandler]

\* the second connection adds a path; the only one it can insert is "a.md",
\* whose render and watch do not fail
HubConnStep ==
    \/ \E p \in Paths : CtlRead("c2", AddLine(PathText(p)))
    \/ AddCheck("c2")
    \/ AddRender("c2")
    \/ AddRead("c2")
    \/ AddStore("c2")
    \/ AddWatch("c2")
    \/ AddWatchDir("c2")
    \/ AddNotify("c2")
    \/ \E h \in Handlers : AddSend("c2", h)

HubSSEStep ==
    \E h \in Handlers :
        \/ \E s \in Scopes : SSEConnect(h, s)
        \/ SSESubscribe(h)
        \/ SSESelect(h)
        \/ SSEKeepalive(h)
        \/ \E ok \in BOOLEAN : SSEWrite(h, ok)
        \/ SSEDisconnect(h)
        \/ SSEUnsubscribe(h)

HubEnvStep ==
    \/ \E k \in [FsIds -> BurstSizes] : EnvTruncate(TrackedPath, k)
    \/ \E k \in [FsIds -> BurstSizes] : EnvWrite(TrackedPath, k)

HubDetStep ==
    \E i \in FsIds :
        \/ DetEvent(i)
        \/ DetRender(i)
        \/ DetRead(i)
        \/ DetStore(i)
        \/ DetNotify(i)
        \/ \E h \in Handlers : DetSend(i, h)

NextHub == HubConnStep \/ HubSSEStep \/ HubEnvStep \/ HubDetStep

SpecHub == InitHub /\ [][NextHub]_vars

\* connected. The state after the client h1 has subscribed to "b.md" and
\* waits in its select; from there the files change on disk, the clock
\* advances, the detector reloads and the client writes what it receives.
Subscriber == "h1"

InitWatch ==
    /\ OsIdle
    /\ disk = [p \in DiskPaths |-> 0]
    /\ perm = [p \in DiskPaths |-> TRUE]
    /\ nenv = 0
    /\ nwrites = 0
    /\ now = 0
    /\ files = [p \in Paths |-> IF p = TrackedPath THEN 1 ELSE NoFs]
    /\ fstate = [i \in FsIds |->
                   IF i = 1
                   THEN [NewFileState(TrackedPath) EXCEPT
                           !.htmlContent = Convert(0), !.watcher = "open",
                           !.sseClients = {Subscriber}]
                   ELSE FreeFileState]
    /\ nalloc = 1
    /\ indexSSEClients = {}
    /\ conn = [c \in Conns |->
                 IF c = "c1"
                 THEN [IdleConn EXCEPT !.pc = "done", !.path = TrackedPath,
                                       !.fs = 1, !.resp = RespOK(TrackedPath),
                                       !.pubs = 1,
                                       !.line = AddLine(PathText(TrackedPath))]
                 ELSE IdleConn]
    /\ det = [i \in FsIds |->
                IF i = 1 THEN [IdleDetector EXCEPT !.pc = "idle"]
                ELSE IdleDetector]
    /\ evq = [i \in FsIds |-> <<>>]
    /\ hd = [h \in Handlers |->
               IF h = Subscriber
               THEN [IdleHandler EXCEPT !.pc = "select", !.scope = TrackedPath,
                                        !.fs = 1, !.status = 200]
               ELSE IdleHandler]

WatchDetStep ==
    \E i \in FsIds :
        \/ DetEvent(i)
        \/ DetRender(i)
        \/ DetRead(i)
        \/ DetWake(i)
        \/ DetStore(i)
        \/ DetNotify(i)
        \/ \E h \in Handlers : DetSend(i, h)

WatchSSEStep ==
    \/ SSEKeepalive(Subscriber)
    \/ SSEWrite(Subscriber, TRUE)

NextWatch == EnvStep \/ WatchDetStep \/ WatchSSEStep \/ Tick

SpecWatch == InitWatch /\ [][NextWatch]_vars

\* the same with the scheduling of the program: the goroutine of the detector
\* and the goroutine of the handler are not starved and the clock advances;
\* the processes that change the files and the keep-alive ticker need not act
FairSpecWatch ==
    /\ SpecWatch
    /\ WF_vars(WatchDetStep)
    /\ WF_vars(SSEWrite(Subscriber, TRUE))
    /\ WF_vars(Tick)

\* SpecRetry: the reload of one tracked file without clients. The state after
\* "b.md" has been added; from there the file is written, unlinked, renamed
\* and chmod-ed while the clock advances and the detector reloads it.
RetryEnvStep ==
    \/ \E k \in [FsIds -> BurstSizes] : EnvTruncate(TrackedPath, k)
    \/ \E k \in [FsIds -> BurstSizes] : EnvWrite(TrackedPath, k)
    \/ \E op \in {"Remove", "Rename"} : EnvUnlink(TrackedPath, op)
    \/ \E k \in [FsIds -> BurstSizes] : EnvChmod(TrackedPath, k)

RetryDetStep ==
    \E i \in FsIds :
        \/ DetEvent(i)
        \/ DetRender(i)
        \/ DetRead(i)
        \/ DetWake(i)
        \/ DetStore(i)
        \/ DetNotify(i)

NextRetry == RetryEnvStep \/ RetryDetStep \/ Tick

SpecRetry == InitHub /\ [][NextRetry]_vars

\* the same with the scheduling of the program: the goroutine of the detector
\* is not starved and the clock advances; the file need not change
FairSpecRetry ==
    /\ SpecRetry
    /\ WF_vars(RetryDetStep)
    /\ WF_vars(Tick)

\* SpecCtl: the control server. Connections deliver arbitrary lines while the
\* file "b.md" may be removed or made unreadable.
\* the path arguments sent: the files of the directory, a path that does not
\* exist, "b.md " (no such file) and " a.md" (no such file)
ReqPaths ==
    {PathText(p) : p \in DiskPaths}
        \cup {<<"/does/not/exist">>, <<"b.md", " ">>, <<" ", "a.md">>}

\* the texts a client writes before it waits for the response
Lines ==
    {AddLine(t) : t \in ReqPaths}
        \cup {<<"ADD", "\n">>, <<"ADD", " ", "\n">>,
              <<"UNKNOWN", " ", "/path", "\n">>, <<"STOP", "\n">>,
              <<"add", " ", "a.md", "\n">>, <<"ADD", " ", "a.md">>, <<"\n">>,
              AddLine(<<"a.md">>) \o AddLine(<<"b.md">>),
              <<"ADD", "\n">> \o AddLine(<<"a.md">>)}

CtlConnStep ==
    \E c \in Conns :
        \/ \E text \in Lines : CtlRead(c, text)
        \/ AddCheck(c)
        \/ AddRender(c)
        \/ AddRead(c)
        \/ AddRenderFailed(c)
        \/ AddStore(c)
        \/ AddWatch(c)
        \/ AddWatchDir(c)
        \/ AddWatchFailed(c)
        \/ AddNotify(c)

CtlEnvStep ==
    \E p \in Paths \ StablePaths :
        \/ EnvUnlink(p, "Remove")
        \/ \E k \in [FsIds -> BurstSizes] : EnvChmod(p, k)

NextCtl == CtlConnStep \/ CtlEnvStep

SpecCtl == Init /\ [][NextCtl]_vars

\* SpecHttp: the request handlers against a registry that control connections
\* fill while a file disappears or becomes unreadable: page requests and
\* streaming requests for tracked paths, untracked paths, no path and the
\* index page. One request is followed through the run, a streaming request
\* until it waits for messages or has got one.
HttpStep ==
    \E h \in {"h1"} :
        \/ \E p \in Paths : PageLookup(h, p)
        \/ PageRead(h)
        \/ \E s \in Scopes : SSEConnect(h, s)
        \/ SSESubscribe(h)
        \/ SSESelect(h)
        \/ \E c \in Conns : AddSend(c, h)

SpecHttp == Init /\ [][ConnStep \/ CtlEnvStep \/ HttpStep]_vars

\* ------------------------------------------------------------------ claims
\* the detector goroutines started for the path p
DetectorsOf(p) == {i \in FsIds : det[i].pc # "none" /\ fstate[i].path = p}

\* the FileState objects created for the path p
FileStatesOf(p) == {i \in 1 .. nalloc : fstate[i].path = p}

\* the connections inside addFile(p)
Adding(p) ==
    {c \in Conns : conn[c].path = p /\
        conn[c].pc \in {"add", "render", "read", "unrender", "store", "watch",
                        "watchdir", "unwatch", "notify", "send"}}

\* the connections whose addFile(p) has inserted its entry and not returned
Inserting(p) ==
    {c \in Conns : conn[c].path = p /\
        conn[c].pc \in {"render", "read", "unrender", "store", "watch",
                        "watchdir", "unwatch", "notify", "send"}}

\* the connections whose addFile(p) has returned
Returned(p) ==
    {c \in Conns : conn[c].path = p /\ conn[c].pc = "done" /\
        conn[c].resp # RespNoFile(PathText(p))}

\* the initial render of p has succeeded and its watch is established
SetUp(p) ==
    \E i \in FileStatesOf(p) :
        fstate[i].htmlContent # NilContent /\ fstate[i].watcher = "open"

\* C1: for a path whose render and watch setup succeed, every addFile call
\* returns success, at most one detector ever runs for it, and once the calls
\* have returned the registry holds the one FileState created for it, watched
\* by exactly one detector.
C1_IdempotentAdd ==
    \A p \in StablePaths :
        /\ \A c \in Conns :
             (conn[c].pc = "done" /\ conn[c].path = p) => conn[c].resp = RespOK(p)
        /\ Cardinality(DetectorsOf(p)) <= 1
        /\ (Returned(p) # {} /\ Adding(p) = {}) =>
             /\ files[p] # NoFs
             /\ FileStatesOf(p) = {files[p]}
             /\ DetectorsOf(p) = {files[p]}

\* every connection has added "a.md" and was answered OK
C1_Witness ==
    \A c \in Conns :
        conn[c].pc = "done" /\ conn[c].path = "a.md" /\ conn[c].resp = RespOK("a.md")

\* the step in which the addFile call of c returns an error
AddFails(c) == conn[c].pc \in {"unrender", "unwatch"} /\ conn'[c].pc = "done"

\* C2: when addFile(p) returns an error, the registry has no entry for p, a
\* lookup of p reports not-found, no detector runs for p, and the entries and
\* FileStates of the other paths are as they were.
C2_AllOrNothing ==
    [][\A c \in Conns :
         AddFails(c) =>
           LET p == conn[c].path
           IN /\ files'[p] = NoFs
              /\ IndexStatus(p)' = 404
              /\ DetectorsOf(p)' = {}
              /\ \A q \in Paths \ {p} : files'[q] = files[q]
              /\ \A i \in FsIds : fstate[i].path # p => fstate'[i] = fstate[i]]_vars

\* an add of one path has failed while the other path is tracked
C2_Witness ==
    \E c \in Conns :
        /\ conn[c].pc = "done"
        /\ conn[c].resp = RespAddFailed("failed to render file")
        /\ files[conn[c].path] = NoFs
        /\ \E q \in Paths : files[q] # NoFs /\ SetUp(q)

\* C3 (as claimed): in every reachable state a path is in the registry if and
\* only if its initial render has succeeded and its watch is established.
C3_RegistryIffSetUp == \A p \in Paths : files[p] # NoFs <=> SetUp(p)

\* C3 (amended): the same, in every state in which no addFile(p) is between
\* inserting its entry and returning.
C3_RegistryIffSetUpAtRest ==
    \A p \in Paths : Inserting(p) = {} => (files[p] # NoFs <=> SetUp(p))

\* one path is tracked and set up, the add of the other one has failed
C3_Witness ==
    /\ \E p \in Paths : files[p] # NoFs /\ SetUp(p) /\ Inserting(p) = {}
    /\ \E c \in Conns :
         /\ conn[c].pc = "done"
         /\ conn[c].resp = RespAddFailed("failed to start watching file")
         /\ files[conn[c].path] = NoFs

\* C4: whenever a connection has answered OK to ADD p, p is in the registry
\* with rendered content and a running detector, and GET /?file=p is a 200.
C4_OkMeansServable ==
    \A c \in Conns :
        (conn[c].pc = "done" /\ conn[c].resp = RespOK(conn[c].path)) =>
            LET p == conn[c].path
            IN /\ files[p] # NoFs
               /\ fstate[files[p]].htmlContent # NilContent
               /\ det[files[p]].pc # "none"
               /\ IndexStatus(p) = 200

\* the detector i waits for events and none is queued
AtRest(i) == det[i].pc = "idle" /\ evq[i] = <<>>

\* C5: when the writes of a burst (all of them inside one debounce window)
\* are over (every environment step was the open or the write of a completed
\* os.WriteFile) and their events are processed, the content held for the
\* tracked file is the render of what is on disk: the last write is not lost.
C5_FreshAfterBurst ==
    \A i \in FsIds :
        (/\ fstate[i].watcher = "open"
         /\ AtRest(i)
         /\ nwrites > 0
         /\ nenv = 2 * nwrites
         /\ \A p \in Paths : ~IsEmpty(disk[p])
         /\ now < DebounceDelay) =>
            fstate[i].htmlContent = Convert(disk[fstate[i].path])

\* the step in which the detector i stores a re-render
Rerenders(i) == det[i].pc = "store" /\ det'[i].pc = "notify"

\* C6: two raw events of a file that lie inside one debounce window never
\* both lead to a re-render, however late they are taken from the queue: a
\* re-render is triggered by an event at least DebounceDelay younger than the
\* event that triggered the previous re-render.
C6_OneRerenderPerWindow ==
    [][\A i \in FsIds :
         Rerenders(i) =>
            Sub(det[i].trigAt, det[i].lastOkAt) >= DebounceDelay]_vars

\* C7: after exactly one write of a tracked file (its open and its write are
\* the only environment steps) with one subscriber that accepted what was
\* sent to it, the sink has received one "reload".
C7_ExactlyOneReload ==
    \A i \in FsIds : \A h \in Handlers :
        (/\ fstate[i].sseClients = {h}
         /\ AtRest(i)
         /\ nenv = 2
         /\ nwrites = 1
         /\ disk[fstate[i].path] = 1
         /\ ~hd[h].stale) =>
            hd[h].recv = 1

\* C8: a subscriber that stays connected and is owed a notification (a render
\* was stored after the last message handed to its sink) eventually is handed
\* one.
C8_EventuallyNotified ==
    \A h \in Handlers : hd[h].stale ~> ~hd[h].stale

\* a publish loop hands `message` to one sink of `todo`, leaving `rest`: a
\* sink waiting in its select takes it once, any other sink is left as it is,
\* and no other handler is touched
SendsTo(todo, rest, message) ==
    \E h \in todo :
        /\ rest = todo \ {h}
        /\ IF hd[h].pc = "select"
           THEN /\ hd'[h].pc = "write"
                /\ hd'[h].msg = message
                /\ hd'[h].recv = hd[h].recv + 1
           ELSE hd'[h] = hd[h]
        /\ \A g \in Handlers \ {h} : hd'[g] = hd[g]

\* the steps of notifyClients in the detector i
PublishStep(i) ==
    /\ det[i].pc = "notify" /\ det'[i] # det[i] =>
         /\ hd' = hd
         /\ IF NotifyTargets(fstate[i].path) = {}
            THEN det'[i].pc = "idle"
            ELSE det'[i].pc = "send" /\
                 det'[i].todo = fstate[files[fstate[i].path]].sseClients
    /\ det[i].pc = "send" /\ det'[i] # det[i] =>
         /\ SendsTo(det[i].todo, det'[i].todo, "reload")
         /\ det'[i].pc = IF det'[i].todo = {} THEN "idle" ELSE "send"

\* the steps of notifyIndexClients in the connection c
IndexPublishStep(c) ==
    /\ conn[c].pc = "notify" /\ conn'[c] # conn[c] =>
         /\ hd' = hd
         /\ IF indexSSEClients = {}
            THEN conn'[c].pc = "done" /\ conn'[c].resp = RespOK(conn[c].path)
            ELSE conn'[c].pc = "send" /\ conn'[c].todo = indexSSEClients
    /\ conn[c].pc = "send" /\ conn'[c] # conn[c] =>
         /\ SendsTo(conn[c].todo, conn'[c].todo, "reload")
         /\ IF conn'[c].todo = {}
            THEN conn'[c].pc = "done" /\ conn'[c].resp = RespOK(conn[c].path)
            ELSE conn'[c].pc = "send"

\* a publish loop can take its next iteration whatever its sinks do
NeverBlocked ==
    /\ \A i \in FsIds :
         det[i].pc = "send" =>
            /\ det[i].todo # {}
            /\ \A h \in det[i].todo : ENABLED DetSend(i, h)
    /\ \A c \in Conns :
         conn[c].pc = "send" =>
            /\ conn[c].todo # {}
            /\ \A h \in conn[c].todo : ENABLED AddSend(c, h)
    /\ \A p \in Paths : files[p] = NoFs => NotifyTargets(p) = {}

\* C9: notifyClients and notifyIndexClients never wait for a sink and end
\* without error: each iteration hands the message exactly once to a sink
\* that waits in its select and drops it for a sink that does not, touching
\* no other sink; with no sink registered, or for an untracked path, nothing
\* is sent.
C9_NonBlockingPublish ==
    /\ []NeverBlocked
    /\ [][/\ \A i \in FsIds : PublishStep(i)
          /\ \A c \in Conns : IndexPublishStep(c)]_vars

\* a reload is being published to two sinks of the file: one has taken it,
\* the other one is busy writing and is next
C9_Witness ==
    \E i \in FsIds : \E h, g \in Handlers :
        /\ det[i].pc = "send"
        /\ h # g
        /\ {h, g} \subseteq fstate[det[i].fs].sseClients
        /\ det[i].todo = {g}
        /\ hd[h].pc = "write" /\ hd[h].msg = "reload" /\ hd[h].recv > 0
        /\ hd[g].pc = "write" /\ hd[g].msg = "keepalive"

\* the detector i is inside its retry loop
InRetryLoop(i) == det[i].pc \in {"render", "read", "sleep"}

\* the steps of the retry loop of the detector i
RetryStep(i) ==
    LET p == fstate[i].path
    IN /\ det'[i].attempt # det[i].attempt =>
            \/ det[i].pc = "idle" /\ det'[i].pc = "render" /\ det'[i].attempt = 0
            \/ det[i].pc = "render" /\ det'[i].attempt = det[i].attempt + 1
       /\ det[i].pc = "render" /\ det'[i] # det[i] =>
            /\ det'[i].attempt = det[i].attempt + 1
            /\ det'[i].pc = IF files[p] = NoFs THEN "idle" ELSE "read"
       /\ det[i].pc = "read" /\ det'[i] # det[i] =>
            /\ det'[i].attempt = det[i].attempt
            /\ det'[i].pc = IF ReadErr(p) = "" THEN "store"
                            ELSE IF disk[p] = Absent THEN "sleep"
                            ELSE "idle"
            /\ det'[i].pc = "sleep" => det'[i].wake = now + SleepMs
       /\ det[i].pc = "sleep" /\ det'[i] # det[i] =>
            /\ now >= det[i].wake
            /\ det'[i].attempt = det[i].attempt
            /\ det'[i].pc = IF det[i].attempt < MaxAttempts THEN "render"
                            ELSE "idle"
       /\ det[i].pc # "render" /\ det'[i].pc = "render" =>
            det[i].pc \in {"idle", "sleep"}
       /\ det[i].pc # "read" /\ det'[i].pc = "read" => det[i].pc = "render"

\* C10: one reload invokes the renderer at most MaxAttempts times; another
\* attempt follows only an attempt that failed because the file does not
\* exist, SleepMs later; any other failure ends the reload at once; the loop
\* always ends and the detector waits for events again.
C10_BoundedRetry ==
    /\ [](\A i \in FsIds :
            /\ det[i].attempt <= MaxAttempts
            /\ det[i].pc = "render" => det[i].attempt < MaxAttempts)
    /\ [][\A i \in FsIds : RetryStep(i)]_vars
    /\ \A i \in FsIds : InRetryLoop(i) ~> det[i].pc = "idle"

\* a reload gave up after MaxAttempts attempts, SleepMs apart, on a file that
\* does not exist
C10_Witness ==
    \E i \in FsIds :
        /\ det[i].pc = "idle"
        /\ det[i].attempt = MaxAttempts
        /\ disk[fstate[i].path] = Absent
        /\ now >= MaxAttempts * SleepMs

\* the step in which a reload of the detector i ends in failure
ReloadFails(i) ==
    InRetryLoop(i) /\ det'[i].pc \notin {"render", "read", "sleep", "store"}

\* C11: a reload that fails (attempts exhausted, or an error other than "does
\* not exist") goes straight back to waiting for events: the content of the
\* file, every handler and so every sink are as they were when the event was
\* taken; the content only changes by the store of a successful render and a
\* publish only follows such a store.
C11_FailedReloadKeepsContent ==
    [][\A i \in FsIds :
         /\ InRetryLoop(i) =>
              /\ fstate'[i].htmlContent = fstate[i].htmlContent
              /\ \A h \in fstate[i].sseClients : hd'[h].recv = hd[h].recv
         /\ ReloadFails(i) =>
              /\ det'[i].pc = "idle"
              /\ fstate' = fstate
              /\ hd' = hd
         /\ fstate'[i].htmlContent # fstate[i].htmlContent =>
              /\ det[i].pc = "store"
              /\ det[i].buf # NilContent
              /\ fstate'[i].htmlContent = det[i].buf
         /\ det'[i].pc = "notify" /\ det[i].pc # "notify" => det[i].pc = "store"
         /\ det'[i].pc = "send" /\ det[i].pc # "send" => det[i].pc = "notify"]_vars

\* a reload has failed on a file that cannot be read, nothing was ever stored
\* or sent, and the content rendered at the add is still held
C11_Witness ==
    \E i \in FsIds :
        /\ AtRest(i)
        /\ det[i].attempt > 0
        /\ det[i].lastOkAt = ZeroTime
        /\ ReadErr(fstate[i].path) # ""
        /\ fstate[i].htmlContent = Convert(0)
        /\ fstate[i].sseClients # {}
        /\ \A h \in fstate[i].sseClients : hd[h].recv = 0

\* the step in which the detector i takes an event of another file
TakesSiblingEvent(i) ==
    /\ det[i].pc = "idle"
    /\ evq[i] # <<>>
    /\ evq'[i] = Tail(evq[i])
    /\ Head(evq[i]).name # fstate[i].path

\* C12: an event for another file of the watched directory is dropped: the
\* detector stays idle with its debounce timestamp, nothing is rendered, the
\* content is unchanged and no handler receives anything.
C12_SiblingEventsIgnored ==
    [][\A i \in FsIds :
         TakesSiblingEvent(i) =>
            /\ det'[i] = det[i]
            /\ fstate' = fstate
            /\ hd' = hd]_vars

\* only the sibling "a.md" was written, its events were taken by the detector
\* of "b.md", which never reloaded
C12_Witness ==
    \E i \in FsIds :
        /\ fstate[i].path = TrackedPath
        /\ nwrites > 0
        /\ disk["a.md"] = nwrites
        /\ disk[TrackedPath] = 0
        /\ AtRest(i)
        /\ det[i].lastReload = ZeroTime
        /\ fstate[i].htmlContent = Convert(0)
        /\ hd[Subscriber].recv = 0

\* the invocation q connected to a primary instance that is still running
AttachedToLive(q) ==
    /\ proc[q].mode = "auto"
    /\ proc[q].peer # ""
    /\ Alive(proc[q].peer)

\* C13: an invocation that reached a live primary instance over the control
\* channel does not register its file locally and does not start an HTTP
\* listener.
C13_AttachInsteadOfStart ==
    \A q \in Procs :
        AttachedToLive(q) => proc[q].reg = {} /\ ~proc[q].http

\* C14: every process that became primary (it serves HTTP) has started the
\* control channel server and holds its listener.
C14_EveryPrimaryBinds ==
    \A q \in Procs : proc[q].pc = "serving" => proc[q].lsn # NoSock

\* the running processes that hold a control listener
Bound == {q \in Procs : Alive(q) /\ proc[q].lsn # NoSock}

\* C15: of the processes that ran startControlSocket for the endpoint path,
\* at most one holds a bound control listener.
C15_AtMostOneBinds == Cardinality(Bound) <= 1

\* an endpoint artifact exists and no running process listens on it
Stale ==
    /\ sockFile # NoSock
    /\ \A d \in Procs : ~(Alive(d) /\ proc[d].lsn = sockFile)

\* steps in which q gets the result of os.Stat of the endpoint, of net.Dial
\* in tryAddToExistingServer, and of daemonExists
StatResult(q) == proc[q].pc = "probe" /\ proc'[q].pc \notin {"probe", "exited"}
DialResult(q) == proc[q].pc = "dial" /\ proc'[q].pc \notin {"dial", "exited"}
ExistsResult(q) ==
    /\ proc[q].pc = "dcheck"
    /\ proc'[q].pc # "dcheck"
    /\ proc'[q].code \notin {Killed, Terminated}

\* C16: with no artifact, and with a stale artifact, tryAddToExistingServer
\* returns its error with nothing sent and no peer; a command is only sent on
\* a connection to a running listener; daemonExists is true only when a
\* running process listens on the artifact.
C16_LivenessByConnecting ==
    [][\A q \in Procs :
         /\ StatResult(q) /\ sockFile = NoSock =>
               /\ proc'[q].pc = "oneoff" /\ proc'[q].err = ErrNoSocket
               /\ proc'[q].sent = <<>> /\ proc'[q].peer = ""
         /\ DialResult(q) /\ Stale =>
               /\ proc'[q].pc = "oneoff" /\ proc'[q].err = ErrConnect
               /\ proc'[q].sent = <<>> /\ proc'[q].peer = ""
         /\ DialResult(q) /\ proc'[q].pc = "send" =>
               /\ ~Stale
               /\ Alive(proc'[q].peer) /\ proc[proc'[q].peer].lsn = sockFile
         /\ proc[q].sent = <<>> /\ proc'[q].sent # <<>> => proc[q].peer # ""
         /\ ExistsResult(q) /\ (Stale \/ sockFile = NoSock) =>
               proc'[q].pc = "dremove"
         /\ ExistsResult(q) /\ proc'[q].pc = "exited" =>
               sockFile # NoSock /\ ~Stale]_vars

\* an invocation found a stale artifact, could not connect, sent nothing and
\* serves its file itself, the artifact still being stale
C16_Witness ==
    \E q \in Procs :
        /\ proc[q].pc = "serving"
        /\ proc[q].err = ErrConnect
        /\ proc[q].sent = <<>>
        /\ Stale

\* the connection c receives the text and acts on it
Receives(c, text) ==
    /\ conn[c].pc = "idle"
    /\ conn'[c].pc # "idle"
    /\ conn'[c].line = text

\* no file with the name t is on disk
NotOnDisk(t) == \A p \in DiskPaths : PathText(p) = t => disk[p] = Absent

\* C17: for every path p that is not on disk, "ADD p" is answered with exactly
\* "ERROR file does not exist: p" and a newline, and the registry is unchanged.
C17_MissingFileError ==
    [][\A c \in Conns, t \in ReqPaths :
         Receives(c, <<"ADD", " ">> \o t \o <<"\n">>) /\ NotOnDisk(t) =>
            /\ conn'[c].pc = "done"
            /\ conn'[c].resp =
                  <<"ERROR", " ", "file does not exist:", " ">> \o t \o <<"\n">>
            /\ files' = files
            /\ fstate' = fstate]_vars

\* the lines that are the keyword ADD with no path argument
AddWithoutPath == {<<"ADD", "\n">>, <<"ADD", " ", "\n">>}

\* C18: a line that is the keyword ADD with no path is answered with exactly
\* "ERROR invalid command: expected 'ADD <path>'" and a newline, and the
\* registry is unchanged.
C18_AddWithoutPath ==
    [][\A c \in Conns, text \in AddWithoutPath :
         Receives(c, text) =>
            /\ conn'[c].pc = "done"
            /\ conn'[c].resp =
                  <<"ERROR", " ", "invalid command: expected 'ADD <path>'", "\n">>
            /\ files' = files
            /\ fstate' = fstate]_vars

\* a connection was answered for "ADD" without a path while the other one had
\* added "a.md", which is all the registry holds
C18_Witness ==
    \E c, o \in Conns :
        /\ conn[c].pc = "done"
        /\ conn[c].line \in AddWithoutPath
        /\ conn[c].resp # <<>>
        /\ conn[o].pc = "done"
        /\ conn[o].path = "a.md"
        /\ files["a.md"] # NoFs
        /\ files["b.md"] = NoFs

\* the complete lines whose keyword is neither ADD nor STOP
UnknownKeyword ==
    {text \in Lines : HasLine(text) /\ text[1] \notin {"ADD", "STOP", "\n"}}

\* C19: a line whose keyword is neither ADD nor STOP is answered with exactly
\* "ERROR invalid command: expected 'ADD <path>' or 'STOP'" and a newline,
\* which is not the response to ADD without a path.
C19_UnknownKeyword ==
    [][\A c \in Conns, text \in UnknownKeyword :
         Receives(c, text) =>
            /\ conn'[c].resp =
                  <<"ERROR", " ",
                    "invalid command: expected 'ADD <path>' or 'STOP'", "\n">>
            /\ conn'[c].resp #
                  <<"ERROR", " ", "invalid command: expected 'ADD <path>'", "\n">>]_vars

\* the step in which the response of the connection c is written
Answered(c) == conn[c].resp = <<>> /\ conn'[c].resp # <<>>

\* C20: for every file p that exists and can be read, "ADD p" is answered with
\* exactly "OK http://localhost:n/?file=p" and a newline, n being the port of
\* the server, unless the watch setup failed.
C20_OkResponse ==
    [][\A c \in Conns, p \in DiskPaths :
         /\ Answered(c)
         /\ conn'[c].line = <<"ADD", " ">> \o PathText(p) \o <<"\n">>
         /\ disk[p] # Absent /\ perm[p]
         /\ conn'[c].resp # RespAddFailed("failed to start watching file")
         => conn'[c].resp =
               <<"OK", " ", "http://localhost:">> \o Itoa(Port)
                  \o <<"/?file=">> \o PathText(p) \o <<"\n">>]_vars

\* the positions of the newlines of a text
Newlines(t) == {n \in 1 .. Len(t) : t[n] = "\n"}

\* the symbols of the first line of a text
FirstLineSymbols(t) ==
    {t[n] : n \in {m \in 1 .. Len(t) : \A k \in Newlines(t) : m <= k}}

\* C21: a connection on which a complete line arrived ends with exactly one
\* response line, only the first line is acted on (the path taken and the
\* registry come from first lines only), and a finished connection is closed:
\* nothing more happens on it.
C21_OneCommandPerConnection ==
    [][\A c \in Conns :
         /\ conn'[c].pc = "done" /\ Newlines(conn'[c].line) # {} =>
               Newlines(conn'[c].resp) = {Len(conn'[c].resp)}
         /\ conn'[c].path # "" => conn'[c].path \in FirstLineSymbols(conn'[c].line)
         /\ conn[c].pc = "done" => conn'[c] = conn[c]
         /\ \A p \in Paths :
               files'[p] # NoFs => \E o \in Conns : conn'[o].path = p]_vars

\* a connection that sent "ADD a.md" and "ADD b.md" was answered once, for
\* "a.md", and is closed; "b.md" is not tracked
C21_Witness ==
    \E c \in Conns :
        /\ conn[c].pc = "done"
        /\ conn[c].line = <<"ADD", " ", "a.md", "\n", "ADD", " ", "b.md", "\n">>
        /\ conn[c].resp = RespOK("a.md")
        /\ files["a.md"] # NoFs
        /\ files["b.md"] = NoFs

\* `lum --stop` of the invocation q succeeded: it exited with code 0
StopSucceeded(q) == proc[q].mode = "stop" /\ proc[q].code = 0

\* C22: after `lum --stop` succeeded, the daemon it reached is eventually no
\* longer running.
C22_StopTerminates ==
    \A q \in Procs :
        StopSucceeded(q) ~> (\A d \in Procs : d = proc[q].peer => ~Alive(d))

\* the daemon q, which holds its control listener, exits on SIGINT or SIGTERM:
\* by its handler (os.Exit(0)) or by the default action of the signal
SignalExit(q) ==
    /\ proc[q].mode = "daemon"
    /\ Alive(q)
    /\ proc[q].lsn # NoSock
    /\ proc'[q].pc = "exited"
    /\ proc'[q].code \in {0, Terminated}

\* C23: when a running daemon exits on an interrupt or SIGTERM, no artifact
\* remains at the endpoint path.
C23_SignalRemovesArtifact ==
    [][\A q \in Procs : SignalExit(q) => sockFile' = NoSock]_vars

\* the handler h is between registering its sink and returning
Streaming(h) == hd[h].pc \in {"setup", "select", "write", "exit"}

\* the subscriber sets that hold the sink of h
SetsHolding(h) ==
    {i \in FsIds : h \in fstate[i].sseClients}
        \cup (IF h \in indexSSEClients THEN {IndexScope} ELSE {})

\* C24: every subscriber set holds only sinks of handlers that are still
\* running and that subscribed to that scope, and a handler that returns has
\* its sink in no subscriber set.
C24_AlwaysUnsubscribes ==
    [][\A h \in Handlers :
         /\ SetsHolding(h)' # {} => Streaming(h)'
         /\ SetsHolding(h)' \subseteq
               {IF hd'[h].scope = IndexScope THEN IndexScope ELSE hd'[h].fs}
         /\ hd[h].pc # "done" /\ hd'[h].pc = "done" => SetsHolding(h)' = {}]_vars

\* a handler that had subscribed to the file and received a reload has
\* returned, the other handler is still subscribed to the file
C24_Witness ==
    \E h, o \in Handlers, i \in FsIds :
        /\ hd[h].pc = "done" /\ hd[h].status = 200 /\ hd[h].recv > 0
        /\ hd[h].fs = i
        /\ fstate[i].sseClients = {o}
        /\ o # h

\* ---------------------------------------------------------------- C26
\* the request of h arrives in this step
Arrives(h) == hd[h].pc = "idle" /\ hd'[h].pc # "idle"

\* the step changes neither the registry nor any subscriber set
HubUnchanged ==
    /\ files' = files
    /\ indexSSEClients' = indexSSEClients
    /\ \A i \in FsIds : fstate'[i].sseClients = fstate[i].sseClients

\* the request of h was refused, and h is no subscriber after the step
Refused(h, status) ==
    /\ hd'[h].pc = "done"
    /\ hd'[h].status = status
    /\ HubUnchanged
    /\ h \notin indexSSEClients'
    /\ \A i \in FsIds : h \notin fstate'[i].sseClients

\* requests for an untracked path answer 404 and requests to /events without
\* a path answer 400, and neither changes the registry or registers a sink
UntrackedRefused(h) ==
    /\ (Arrives(h) /\ hd'[h].scope \in Paths /\ files[hd'[h].scope] = NoFs)
            => Refused(h, 404)
    /\ (Arrives(h) /\ hd'[h].scope = "") => Refused(h, 400)

\* the page request of h is answered in this step
PageServed(h) == hd[h].pc = "page" /\ hd'[h].pc = "done"

\* C26 (as stated): a request for an untracked path answers 404, a streaming
\* request without a path answers 400, neither registers a sink or changes
\* the registry, and the page of a tracked path is served with status 200 and
\* its rendered content.
C26_TrackedServedRendered ==
    [][\A h \in Handlers :
          /\ UntrackedRefused(h)
          /\ PageServed(h) => /\ hd'[h].status = 200
                              /\ hd'[h].body # NilContent]_vars

\* C26 (amended): the same for untracked paths; the page of a tracked path is
\* served with status 200 and the content stored in the entry that the lookup
\* found, which is empty only for an entry that never got a watcher (the
\* placeholder of an addFile before its render was stored).
C26_TrackedServedStored ==
    [][\A h \in Handlers :
          /\ UntrackedRefused(h)
          /\ PageServed(h) =>
                /\ hd'[h].status = 200
                /\ hd'[h].body = fstate[hd[h].fs].htmlContent
                /\ hd'[h].body = NilContent => fstate[hd[h].fs].watcher = "none"]_vars

\* a page was served from a placeholder entry while the other path is untracked
C26_Witness ==
    /\ hd["h1"].pc = "done"
    /\ hd["h1"].status = 200
    /\ hd["h1"].scope = "a.md"
    /\ hd["h1"].body = NilContent
    /\ files["b.md"] = NoFs

\* ---------------------------------------------------------------- C27
\* f is at a lock operation
WantsLock(f) == Instr(f)[1] \in {"Lock", "RLock"}

\* the goroutines that f waits for at its lock operation: the owner of the
\* writers' mutex, the readers an announced writer waits for, the writer a
\* queued reader waits for
Blockers(f) ==
    LET op == Instr(f)[1]
        l == Instr(f)[2]
    IN IF op = "Lock" /\ flow[f].phase = "run" THEN WOwner(l)
       ELSE IF op = "Lock" THEN Readers(l)
       ELSE IF op = "RLock" /\ flow[f].phase = "queued" THEN WOwner(l)
       ELSE {}

\* the goroutines that f waits for directly or through others
WaitsFor(f) ==
    LET b1 == Blockers(f)
        b2 == UNION {Blockers(g) : g \in b1}
        b3 == UNION {Blockers(g) : g \in b2}
    IN b1 \cup b2 \cup b3

\* C27: no goroutine ever waits, directly or through others, for a lock that
\* is kept from it by itself (no cycle of waiting), and whenever a goroutine
\* waits for a lock, one of the goroutines it waits for can take a step.
C27_DeadlockFree ==
    \A f \in Flows :
        /\ f \notin WaitsFor(f)
        /\ Blockers(f) # {} =>
              \E g \in WaitsFor(f) : ENABLED (FlowStep(g) \/ FlowResume(g))

\* C27, as progress: under the scheduling of the runtime every goroutine that
\* is at a lock operation gets past it
LockProgress == \A f \in Flows : WantsLock(f) ~> ~WantsLock(f)

\* a reader queued behind a writer that waits for a third goroutine to leave
C27_Witness ==
    \E f, g \in Flows :
        /\ flow[f].phase = "queued"
        /\ g \in Blockers(f)
        /\ Blockers(g) \ {f, g} # {}

\* ---------------------------------------------------------------- C28
\* f is suspended
Suspended(f) == Instr(f)[1] = "wait"

\* C28: a suspended goroutine holds neither the registry lock nor a content
\* lock.
C28_NoLockWhileSuspended ==
    \A f \in Flows :
        Suspended(f) =>
            \A h \in flow[f].held : h[1] \notin {"filesLock", "contentLock"}

\* ---------------------------------------------------------------- C29
\* C29: no goroutine holds two locks, and a goroutine that goes for a lock
\* holds none.
C29_LockIndependence ==
    \A f \in Flows :
        /\ Cardinality(flow[f].held) <= 1
        /\ WantsLock(f) => flow[f].held = {}

\* a goroutine holds the subscriber lock of a file after it has held and
\* released the registry lock, while another holds the registry lock
C29_Witness ==
    \E f, g \in Flows :
        /\ flow[f].held = {<<"clientsLock", "R">>}
        /\ flow[f].prog[flow[f].pc - 2] = <<"RUnlock", "filesLock">>
        /\ flow[g].held = {<<"filesLock", "W">>}

\* ---------------------------------------------------------------- C30
\* the addFile of c has put its own FileState into the registry and it is
\* still there
NewlyRegistered(c) ==
    conn[c].fs # NoFs /\ files[conn[c].path] = conn[c].fs

\* the FileState of c is rendered and watched
SetUpBy(c) ==
    /\ fstate[conn[c].fs].htmlContent # NilContent
    /\ fstate[conn[c].fs].watcher = "open"

\* C30: addFile calls notifyIndexClients("reload") only for a path that it
\* has registered itself and that is rendered and watched, the path stays
\* listed while the message is handed out, a sink of the index page gets
\* "reload" only from such a publish and at most once from it, and an addFile
\* that has returned has published once if it newly registered its path and
\* not at all if the path was tracked already or the add failed.
C30_PublishOnNewFile ==
    [][\A c \in Conns :
          /\ conn'[c].pubs # conn[c].pubs =>
                /\ conn'[c].pubs = conn[c].pubs + 1
                /\ NewlyRegistered(c) /\ SetUpBy(c)
          /\ conn[c].pc = "send" => NewlyRegistered(c) /\ SetUpBy(c)
          /\ conn'[c].pc = "done" =>
                /\ conn'[c].pubs = IF NewlyRegistered(c)' THEN 1 ELSE 0
                /\ NewlyRegistered(c)' <=> (conn'[c].fs # NoFs /\
                                            conn'[c].resp = RespOK(conn'[c].path))
          /\ \A h \in Handlers :
                hd'[h].recv # hd[h].recv =>
                    /\ hd'[h].msg = "reload" /\ hd'[h].recv = hd[h].recv + 1
                    /\ \E d \in Conns : /\ conn[d].pc = "send"
                                        /\ h \in conn[d].todo
                                        /\ h \notin conn'[d].todo]_vars

\* one addFile has registered a path and handed its reload to the waiting
\* sink of the index page, the other has returned without a publish
C30_Witness ==
    /\ conn["c1"].pc = "done" /\ conn["c1"].pubs = 1 /\ NewlyRegistered("c1")
    /\ hd["h1"].scope = IndexScope /\ hd["h1"].recv = 1 /\ hd["h1"].msg = "reload"
    /\ conn["c2"].pc = "done" /\ conn["c2"].pubs = 0

\* ---------------------------------------------------------------- C31
\* the flows that are between the start of a render and the store of its
\* result into the FileState i: addFile calls and detectors
Writers(i) ==
    {<<"add", c>> : c \in {c \in Conns : /\ conn[c].pc \in {"render", "read", "store"}
                                         /\ conn[c].fs = i}}
    \cup
    {<<"det", j>> : j \in {j \in FsIds : /\ det[j].pc \in {"render", "read", "sleep",
                                                          "store"}
                                         /\ files[fstate[j].path] = i}}

\* C31: at most one render-and-store is in progress for a FileState, a
\* detector writes the FileState it was started for, and once a FileState has
\* its first content only its own detector stores content into it.
C31_SerializedRenders ==
    [][\A i \in FsIds :
          /\ Cardinality(Writers(i)) <= 1
          /\ Cardinality(Writers(i)') <= 1
          /\ det[i].pc = "store" => det[i].fs = i
          /\ (fstate[i].htmlContent # NilContent /\
              fstate'[i].htmlContent # fstate[i].htmlContent) =>
                /\ det[i].pc = "store" /\ det'[i].pc = "notify"
                /\ \A c \in Conns : conn'[c] = conn[c]]_vars

\* the detector of one file stores a re-render while an addFile renders
\* another path
C31_Witness ==
    \E i \in FsIds, c \in Conns :
        /\ det[i].pc = "store"
        /\ fstate[i].htmlContent # NilContent
        /\ det[i].buf # fstate[i].htmlContent
        /\ conn[c].pc \in {"render", "store"}

\* ---------------------------------------------------------------- C32
\* the detector i takes an event of kind Write, Create or Rename for its own
\* file in this step, at the time the event was raised
TakesReloadEvent(i) ==
    /\ det[i].pc = "idle"
    /\ evq[i] # <<>>
    /\ evq'[i] = Tail(evq[i])
    /\ ~ForOtherFile(i, Head(evq[i]))
    /\ HasReloadOp(Head(evq[i]))
    /\ Head(evq[i]).at = now

\* C32: such an event is dropped only on account of a successful reload: if
\* no reload of the file has succeeded so far (lastOkAt, the time of the event
\* of the last successful reload, is still unset), the event proceeds to
\* reloading.
C32_DebounceFromLastSuccess ==
    [][\A i \in FsIds :
          (TakesReloadEvent(i) /\ det[i].lastOkAt = ZeroTime) =>
              det'[i].pc = "render"]_vars

\* ---------------------------------------------------------------- C33
\* the detector i takes an event in this step
TakesEvent(i) ==
    /\ det[i].pc = "idle"
    /\ evq[i] # <<>>
    /\ evq'[i] = Tail(evq[i])

\* C33: a reload is started only by an event of kind Write, Create or Rename
\* for the file of the detector, and an event of kind Remove or Chmod for
\* that file leaves the detector (with its debounce timestamp), every
\* FileState and every handler unchanged.
C33_OnlyReloadKinds ==
    [][\A i \in FsIds :
          TakesEvent(i) =>
            /\ det'[i].pc = "render" =>
                  /\ Head(evq[i]).name = fstate[i].path
                  /\ Head(evq[i]).op \in {"Write", "Create", "Rename"}
            /\ (Head(evq[i]).name = fstate[i].path /\
                Head(evq[i]).op \in {"Remove", "Chmod"}) =>
                  /\ det'[i] = det[i]
                  /\ fstate' = fstate
                  /\ hd' = hd]_vars

\* the tracked file was removed, the detector has taken the Remove event and
\* never reloaded
C33_Witness ==
    \E i \in FsIds :
        /\ fstate[i].path = TrackedPath
        /\ disk[TrackedPath] = Absent
        /\ nenv = 1
        /\ evq[i] = <<>>
        /\ det[i].pc = "idle"
        /\ det[i].lastReload = ZeroTime
        /\ fstate[i].htmlContent = Convert(0)
        /\ hd[Subscriber].recv = 0

\* ---------------------------------------------------------------- C34
\* the order in which the contents of a file exist on disk: the n-th write,
\* then the empty file of the next open
Version(content) ==
    IF content = NilContent THEN Absent
    ELSE IF IsEmpty(content[2]) THEN 2 * (Absent - 1 - content[2]) + 1
    ELSE 2 * content[2]

\* the handler h of a file gets a message from its sink in this step
ReceivesReload(h) ==
    /\ hd[h].scope \in Paths
    /\ hd'[h].recv = hd[h].recv + 1

\* C34: when a subscriber of a file receives "reload", the content of the
\* file is the output of the render that the publishing detector made last
\* (det[i].out), and the content of a file is never replaced by an older one,
\* so that a read after the message sees that render or a later one.
C34_UpdateBeforeNotify ==
    [][/\ \A h \in Handlers :
             ReceivesReload(h) =>
                /\ hd'[h].msg = "reload"
                /\ \E i \in FsIds :
                      /\ det[i].pc = "send" /\ h \in det[i].todo
                      /\ det[i].fs = hd[h].fs
                      /\ files[hd[h].scope] = hd[h].fs
                      /\ det[i].out # NilContent
                      /\ fstate[hd[h].fs].htmlContent = det[i].out
       /\ \A i \in FsIds :
             Version(fstate'[i].htmlContent) >= Version(fstate[i].htmlContent)]_vars

\* the subscriber has received the reloads of two re-renders (of the file
\* as its open left it, and as written), and the content is that of the write
C34_Witness ==
    /\ hd[Subscriber].recv >= 2
    /\ hd[Subscriber].msg = "reload"
    /\ nwrites = 1
    /\ fstate[hd[Subscriber].fs].htmlContent = Convert(1)

\* ---------------------------------------------------------------- C35
\* SpecTeardown: a tracked file whose watcher is closed. The program itself
\* closes a watcher only on the failure paths of startWatchingFile, before
\* the detector goroutine exists; the teardown of a watched file is the
\* cleanup of the repository's tests: under filesLock the watcher is closed
\* and the entry is deleted from the registry, in one critical section.
\* A closed watcher gets no more events. The file is written meanwhile and
\* a control connection adds the path again; the clock stands still.
Teardown(p) ==
    /\ files[p] # NoFs
    /\ fstate[files[p]].watcher = "open"
    /\ fstate' = [fstate EXCEPT ![files[p]].watcher = "closed"]
    /\ files' = [files EXCEPT ![p] = NoFs]
    /\ UNCHANGED <<osVars, envVars, now, nalloc, indexSSEClients, conn, det,
                   evq, hd>>

\* (mutant) a detector that answers the closed channel with a new watcher
DetRestart(i) ==
    /\ det[i].pc = "idle"
    /\ fstate[i].watcher = "closed"
    /\ fstate' = [fstate EXCEPT ![i].watcher = "open"]
    /\ evq' = [evq EXCEPT ![i] = <<>>]
    /\ UNCHANGED <<osVars, envVars, now, files, nalloc, indexSSEClients, conn,
                   det, hd>>

\* `case event, ok := <-watcher.Events: if !ok { return }`: the goroutine
\* returns on the closed channel; events that were not yet taken are lost
DetExit(i) ==
    /\ det[i].pc = "idle"
    /\ fstate[i].watcher = "closed"
    /\ det' = [det EXCEPT ![i].pc = "exited"]
    /\ evq' = [evq EXCEPT ![i] = <<>>]
    /\ UNCHANGED <<osVars, envVars, now, files, fstate, nalloc, indexSSEClients,
                   conn, hd>>

TeardownStep == Teardown(TrackedPath)

\* the file is there and readable throughout: the render of the second add
\* does not fail, its watch can
TeardownConnStep ==
    \/ CtlRead("c2", AddLine(PathText(TrackedPath)))
    \/ AddCheck("c2")
    \/ AddRender("c2")
    \/ AddRead("c2")
    \/ AddStore("c2")
    \/ AddWatch("c2")
    \/ AddWatchDir("c2")
    \/ AddWatchFailed("c2")
    \/ AddNotify("c2")

TeardownEnvStep ==
    \/ \E k \in [FsIds -> BurstSizes] : EnvTruncate(TrackedPath, k)
    \/ \E k \in [FsIds -> BurstSizes] : EnvWrite(TrackedPath, k)

TeardownDetStep ==
    \E i \in FsIds :
        \/ DetEvent(i)
        \/ DetRender(i)
        \/ DetRead(i)
        \/ DetStore(i)
        \/ DetNotify(i)
        \/ \E h \in Handlers : DetSend(i, h)
        \/ DetExit(i)

NextTeardown ==
    TeardownStep \/ TeardownConnStep \/ TeardownEnvStep \/ TeardownDetStep
    \/ WatchSSEStep

SpecTeardown == InitWatch /\ [][NextTeardown]_vars

\* the goroutine of the detector is not starved
FairSpecTeardown ==
    /\ SpecTeardown
    /\ WF_vars(TeardownDetStep)

\* a detector goroutine of the path is running
Live(p) == \E i \in FsIds : fstate[i].path = p /\ det[i].pc \notin {"none", "exited"}

\* the detectors the path had have all returned
Stopped(p) == ~Live(p) /\ \E i \in FsIds : fstate[i].path = p /\ det[i].pc = "exited"

\* the watcher of the FileState i, which had a detector, has been closed
WatchClosed(i) == fstate[i].watcher = "closed" /\ det[i].pc # "none"

\* the detector i stores a render in this step
DetStores(i) == det[i].pc = "store" /\ det'[i].pc = "notify"

\* the detector i hands a message to a sink in this step
DetPublishes(i) ==
    /\ det[i].pc = "send"
    /\ \E h \in det[i].todo : h \notin det'[i].todo /\ hd'[h].recv = hd[h].recv + 1

\* a detector whose watcher is closed returns, a returned detector takes no
\* further step, and a detector runs for a path that had none running only
\* by the startWatchingFile of an addFile of that path
TerminatesForGood ==
    /\ \A i \in FsIds : WatchClosed(i) ~> (det[i].pc = "exited")
    /\ [][/\ \A i \in FsIds : det[i].pc = "exited" => det'[i] = det[i]
          /\ \A p \in Paths :
                (~Live(p) /\ Live(p)') =>
                   \E c \in Conns :
                      /\ conn[c].path = p
                      /\ conn[c].pc = "watchdir"
                      /\ conn'[c].pc = "notify"]_vars

\* C35 as stated: the detector terminates for good, and from the close of
\* its watcher on it stores no render and publishes nothing.
C35_NoReloadFromClose ==
    /\ TerminatesForGood
    /\ [][\A i \in FsIds :
            WatchClosed(i) => ~DetStores(i) /\ ~DetPublishes(i)]_vars

\* C35: a detector whose watcher is closed returns, after the reload it may
\* have in progress; a returned detector takes no further step; while the
\* detectors of a path have returned, no subscriber of the path gets a
\* message and a content of the path is stored only as the initial render
\* of an addFile of that path; and a detector runs again for the path only
\* by the startWatchingFile of an addFile of that path.
C35_StoppedUntilReAdded ==
    /\ TerminatesForGood
    /\ [][\A p \in Paths :
            Stopped(p) =>
               /\ \A i \in FsIds :
                     (fstate[i].path = p
                        /\ fstate'[i].htmlContent # fstate[i].htmlContent) =>
                           \E c \in Conns :
                              /\ conn[c].path = p /\ conn[c].fs = i
                              /\ conn[c].pc = "store"
                              /\ conn'[c].pc = "watch"
               /\ \A h \in Handlers :
                     hd[h].scope = p => hd'[h].recv = hd[h].recv]_vars

\* the first detector has returned, the path has been added again and the
\* detector of the new entry has reloaded the file
C35_Witness ==
    /\ det[1].pc = "exited"
    /\ files[TrackedPath] = 2
    /\ det[2].pc = "idle"
    /\ det[2].out # NilContent
    /\ fstate[2].htmlContent = det[2].out

\* ---------------------------------------------------------------- C36
\* C36: no registered sink is closed, and every sink that a publish loop
\* still has ahead of it (under the shared lock of its subscriber set) is
\* registered in that set and open, whatever the handlers do meanwhile; so no
\* iteration of notifyClients or notifyIndexClients sends on a closed channel.
C36_NoSendOnClosedSink ==
    /\ \A h \in Handlers :
          hd[h].closed => /\ h \notin indexSSEClients
                          /\ \A i \in FsIds : h \notin fstate[i].sseClients
    /\ \A i \in FsIds :
          det[i].pc = "send" =>
             /\ det[i].todo \subseteq fstate[det[i].fs].sseClients
             /\ \A h \in det[i].todo : ~hd[h].closed /\ hd[h].pc # "panic"
    /\ \A c \in Conns :
          conn[c].pc = "send" =>
             /\ conn[c].todo \subseteq indexSSEClients
             /\ \A h \in conn[c].todo : ~hd[h].closed /\ hd[h].pc # "panic"

\* a publish loop has ahead of it the sink of a handler that is leaving,
\* while the sink of another handler has been closed
C36_Witness ==
    \E i \in FsIds, h \in Handlers, g \in Handlers :
       /\ det[i].pc = "send"
       /\ h \in det[i].todo
       /\ hd[h].pc = "exit"
       /\ hd[g].closed

\* ---------------------------------------------------------------- C37
\* C37: the sink of every running /events?file=p handler is in the
\* subscriber set of the FileState that the registry holds for p.
C37_NoOrphanedSubscriber ==
    \A h \in Handlers :
        (Streaming(h) /\ hd[h].scope \in Paths /\ files[hd[h].scope] # NoFs) =>
            h \in fstate[files[hd[h].scope]].sseClients

\* ---------------------------------------------------------------- C38
\* the control server of d answers the ADD of q with "OK <url>" in this step
AnswersOK(d, q) ==
    /\ proc[q].pc = "await"
    /\ proc[q].peer = d
    /\ proc'[q].pc = "read"
    /\ CutPrefix(proc'[q].resp, <<"OK", " ">>).found

\* C38: whenever the control server of a process answers "OK <url>", the
\* HTTP listener of that process is bound to its port and serving.
C38_HttpBeforeControl ==
    [][\A d \in Procs, q \in Procs :
          AnswersOK(d, q) => (proc[d].http /\ proc[d].pc = "serving")]_vars

\* ---------------------------------------------------------------- C39
\* the running process d has bound the control endpoint and the artifact at
\* the endpoint path is the socket of its listener
BoundPrimary(d) ==
    /\ Alive(d)
    /\ proc[d].lsn # NoSock
    /\ sockFile = proc[d].lsn

\* C39: while a process that has bound the control endpoint keeps running
\* and has not begun its own shutdown (the cleanupSocket of its signal
\* goroutine), no step removes or replaces the artifact of its listener.
C39_LivePrimaryReachable ==
    [][\A d \in Procs :
          (BoundPrimary(d) /\ proc'[d].pc # "exited" /\ ~proc'[d].sig) =>
              sockFile' = sockFile]_vars

\* ---------------------------------------------------------------- C40
\* the step is one of the detector of the FileState i
DetectorActs(i) == det[i].pc # "none" /\ det'[i] # det[i]

\* C40: a step of the detector of a file leaves the registry, the global
\* subscribers, every subscriber set, every other FileState and every
\* handler that is not a subscriber of that file as they are; and while only
\* TrackedPath is written, no subscriber of another file receives a message,
\* no rendered content of another file is replaced, and the subscribers of
\* the index page receive messages only from an addFile.
C40_PerFileIsolation ==
    [][/\ \A i \in FsIds :
             DetectorActs(i) =>
                /\ HubUnchanged
                /\ \A j \in FsIds :
                      fstate[j].path # fstate[i].path => fstate'[j] = fstate[j]
                /\ \A h \in Handlers :
                      hd'[h] # hd[h] =>
                         /\ hd[h].scope = fstate[i].path
                         /\ h \in fstate[files[fstate[i].path]].sseClients
       /\ \A h \in Handlers :
             /\ hd[h].scope \in Paths \ {TrackedPath} => hd'[h].recv = hd[h].recv
             /\ (hd[h].scope = IndexScope /\ hd'[h].recv # hd[h].recv) =>
                   \E c \in Conns : conn[c].pc = "send" /\ h \in conn[c].todo
       /\ \A j \in FsIds :
             (fstate[j].path \in Paths \ {TrackedPath}
                /\ fstate[j].htmlContent # NilContent) =>
                   fstate'[j].htmlContent = fstate[j].htmlContent]_vars

\* the tracked file was re-rendered and its subscriber h1 got the reload,
\* while "a.md" is tracked too, its detector has taken the events of the
\* sibling, and its subscriber h2 waits and has received nothing
C40_Witness ==
    /\ fstate[1].htmlContent = Convert(1)
    /\ hd["h1"].scope = TrackedPath /\ hd["h1"].recv = 1
    /\ files["a.md"] = 2
    /\ fstate[2].watcher = "open"
    /\ fstate[2].htmlContent = Convert(0)
    /\ det[2].pc = "idle" /\ evq[2] = <<>>
    /\ det[1].pc = "idle" /\ evq[1] = <<>>
    /\ hd["h2"].scope = "a.md" /\ hd["h2"].pc = "select" /\ hd["h2"].recv = 0
    /\ fstate[2].sseClients = {"h2"}

====
